---- MODULE Spec2Model ----
(***************************************************************************)
(* Verification model of the Exo Loop-IR core (src/exo/LoopIR.py) and of   *)
(* its C emitter (src/exo/LoopIR_compiler.py).                             *)
(*                                                                         *)
(* Part G: call-graph closure (LoopIR_SubProcs, find_all_subprocs).        *)
(***************************************************************************)
EXTENDS Integers, Sequences, FiniteSets, TLC

\* ------------------------------------------------------------------------
\* Bounds of the call-graph model
\* ------------------------------------------------------------------------
NumProcs == 3

MaxEdges == 3

Procs == 1..NumProcs

VARIABLES
    calls,      \* calls[p]: the procedures named by the Call statements of p.body
    instr,      \* the procedures whose instr field is not None
    seeds,      \* proc_list, the argument of find_all_subprocs
    all_procs,  \* find_all_subprocs: all_procs
    seen,       \* find_all_subprocs: seen
    stack,      \* the active calls of walk: [proc, visited, todo]
    si,         \* position of the `for proc in proc_list` loop
    gpc,        \* "walk", "done" (returned), "error" (ValueError raised)
    errproc,    \* the procedure sp named by the ValueError, 0 if none
    result,     \* the returned list
    pname,      \* pname[p]: the name field of procedure p
    needs,      \* needs[p]: Compiler(p).needed_helpers()
    cpc,        \* compile_to_strings: "idle", "start", "returned", "raised"
    cout,       \* what compile_to_strings returned or raised
    run,        \* which of the two compilations of the same input is running
    prev,       \* the outcome of the first compilation
    inp,        \* the arguments of the pass or function under study
    out,        \* what it returned or raised, stage by stage
    fpc         \* how far the calls on inp have got

gvars == <<calls, instr, seeds, all_procs, seen, stack, si, gpc, errproc, result>>

cvars == <<pname, needs, cpc, cout, run, prev>>

fvars == <<inp, out, fpc>>

vars == <<gvars, cvars, fvars>>

\* ------------------------------------------------------------------------
\* Helpers on sequences
\* ------------------------------------------------------------------------
RECURSIVE reversed(_)
reversed(s) == IF s = <<>> THEN <<>> ELSE Append(reversed(Tail(s)), Head(s))

Range(s) == {s[i] : i \in DOMAIN s}

IndexOf(s, x) == CHOOSE i \in DOMAIN s : s[i] = x

\* no pass is running: the state of a bare call-graph or compile run
FunIdle ==
    /\ inp = [k |-> "none"]
    /\ out = [k |-> "none"]
    /\ fpc = "idle"

\* ------------------------------------------------------------------------
\* LoopIR_SubProcs(proc).result(): the callees of a procedure; the body of
\* an instruction procedure is not visited.
\* ------------------------------------------------------------------------
SubProcsIntoInstr(p) == calls[p]

LoopIR_SubProcs(p) == IF p \in instr THEN {} ELSE calls[p]

\* ------------------------------------------------------------------------
\* find_all_subprocs
\* ------------------------------------------------------------------------
GraphInit ==
    /\ \E E \in SUBSET (Procs \X Procs) :
          /\ Cardinality(E) <= MaxEdges
          /\ calls = [p \in Procs |-> {b \in Procs : <<p, b>> \in E}]
    /\ \E I \in {{}} \cup {{p} : p \in Procs} : instr = I
    \* procedures are opaque references: the first seed is called 1
    /\ seeds \in {<<1>>} \cup {<<1, b>> : b \in Procs}
    /\ all_procs = <<>>
    /\ seen = {}
    /\ stack = <<>>
    /\ si = 1
    /\ gpc = "walk"
    /\ errproc = 0
    /\ result = <<>>

\* walk(proc, visited) up to the start of its for loop; stk is the stack of
\* the active calls at the moment of the call
walk(proc, visited, stk) ==
    IF proc \in seen
    THEN /\ stack' = stk
         /\ UNCHANGED <<all_procs, seen>>
    ELSE /\ all_procs' = Append(all_procs, proc)
         /\ seen' = seen \cup {proc}
         /\ stack' = Append(stk, [proc |-> proc, visited |-> visited,
                                  todo |-> LoopIR_SubProcs(proc)])

\* for proc in proc_list: walk(proc, set())
WalkSeed ==
    /\ gpc = "walk"
    /\ stack = <<>>
    /\ si <= Len(seeds)
    /\ walk(seeds[si], {}, stack)
    /\ si' = si + 1
    /\ UNCHANGED <<calls, instr, seeds, gpc, errproc, result>>
    /\ UNCHANGED <<cvars, fvars>>

\* one iteration of `for sp in LoopIR_SubProcs(proc).result()` in the
\* innermost active walk; a set is iterated in an arbitrary order
WalkIter ==
    /\ gpc = "walk"
    /\ stack # <<>>
    /\ LET n == Len(stack)
           top == stack[n]
       IN \E sp \in top.todo :
            IF sp \in top.visited
            THEN /\ gpc' = "error"
                 /\ errproc' = sp
                 /\ UNCHANGED <<all_procs, seen, stack>>
            ELSE /\ walk(sp, top.visited \cup {top.proc},
                         [stack EXCEPT ![n].todo = @ \ {sp}])
                 /\ UNCHANGED <<gpc, errproc>>
    /\ UNCHANGED <<calls, instr, seeds, si, result>>
    /\ UNCHANGED <<cvars, fvars>>

\* the for loop of the innermost walk is exhausted: walk returns
WalkReturn ==
    /\ gpc = "walk"
    /\ stack # <<>>
    /\ stack[Len(stack)].todo = {}
    /\ stack' = SubSeq(stack, 1, Len(stack) - 1)
    /\ UNCHANGED <<calls, instr, seeds, all_procs, seen, si, gpc, errproc, result>>
    /\ UNCHANGED <<cvars, fvars>>

\* return list(reversed(all_procs))
WalkFinish ==
    /\ gpc = "walk"
    /\ stack = <<>>
    /\ si > Len(seeds)
    /\ result' = reversed(all_procs)
    /\ gpc' = "done"
    /\ UNCHANGED <<calls, instr, seeds, all_procs, seen, stack, si, errproc>>
    /\ UNCHANGED <<cvars, fvars>>

GraphNext == WalkSeed \/ WalkIter \/ WalkReturn \/ WalkFinish

\* ------------------------------------------------------------------------
\* Part H: compile_to_strings, header and source assembly
\* ------------------------------------------------------------------------
NumCProcs == 2

MaxNeeds == 2

CProcs == 1..NumCProcs

Helpers == {"exo_floor_div", "exo_clamp_32to8"}

NoOut == [k |-> "none", exc |-> "", header |-> <<>>, body |-> <<>>]

\* no call graph is walked: the state while a pass is studied
GraphIdle ==
    /\ calls = [p \in Procs |-> {}]
    /\ instr = {}
    /\ seeds = <<>>
    /\ all_procs = <<>>
    /\ seen = {}
    /\ stack = <<>>
    /\ si = 1
    /\ gpc = "idle"
    /\ errproc = 0
    /\ result = <<>>

\* the compiler is not running: the state of a bare find_all_subprocs call
CompileIdle ==
    /\ pname = [p \in Procs |-> p]
    /\ needs = [p \in Procs |-> {}]
    /\ cpc = "idle"
    /\ cout = NoOut
    /\ run = 0
    /\ prev = NoOut

\* sorted(xs, key=lambda x: x.name): Python's sort is stable
RECURSIVE InsertByName(_, _)
InsertByName(s, x) ==
    IF s = <<>> THEN <<x>>
    ELSE IF pname[Head(s)] <= pname[x]
         THEN <<Head(s)>> \o InsertByName(Tail(s), x)
         ELSE <<x>> \o s

RECURSIVE sorted_by_name(_)
sorted_by_name(s) ==
    IF s = <<>> THEN <<>>
    ELSE InsertByName(sorted_by_name(SubSeq(s, 1, Len(s) - 1)), s[Len(s)])

\* `if p.name in seen_procs: raise TypeError` fires for some p of proc_list
HasDupName(pl) ==
    \E i \in DOMAIN pl : \E j \in DOMAIN pl : i < j /\ pname[pl[i]] = pname[pl[j]]

is_public_decl_of_first_seed(p) == p = seeds[1]

\* is_public_decl = id(p) in orig_procs
is_public_decl(p) == p \in Range(seeds)

\* [F(p) for p in pl if Keep(p)]
MapSelect(pl, Keep(_), F(_)) ==
    LET sel == SelectSeq(pl, Keep) IN [i \in 1..Len(sel) |-> F(sel[i])]

\* comp.comp_top(): the declaration d and the definition b of a procedure
proc_decl(p) == [what |-> "decl", name |-> pname[p], static |-> ~is_public_decl(p)]

proc_def(p) ==
    IF p \in instr
    THEN [what |-> "instr comment", name |-> pname[p], static |-> FALSE]
    ELSE [what |-> "def", name |-> pname[p], static |-> ~is_public_decl(p)]

IsPublic(p) == p \notin instr /\ is_public_decl(p)

IsPrivate(p) == p \notin instr /\ ~is_public_decl(p)

IsAny(p) == TRUE

\* all enumerations of a set, as a for loop over the set may yield them
Orders(S) == {o \in [1..Cardinality(S) -> S] : Range(o) = S}

\* helper_code = [_static_helpers[v] for v in needed_helpers]
helper_orders(S) == Orders(S)

\* ------------------------------------------------------------------------
\* Part C: the Loop IR.  Every node is a record with a kind k.  Procedures,
\* statements and expressions carry an object identity oid: the nodes of an
\* input have oid > 0 and update() builds a new object, oid 0.
\* ------------------------------------------------------------------------
None == [k |-> "None"]

IsNone(r) == r.k = "None"

\* the value a map_s returns when it is not None: a Python list
List(items) == [k |-> "List", items |-> items]

IsList(r) == r.k = "List"

\* Python truth value of what a map_* returned
Truthy(r) == ~IsNone(r) /\ ~(IsList(r) /\ r.items = <<>>)

\* Python `new or old` where new is None or a node
OrNode(new, old) == IF IsNone(new) THEN old ELSE new

\* Python `new or old` where new is None or a list and old is a list field
OrList(new, old) == IF Truthy(new) THEN new.items ELSE old

\* types
TScalar(t) == [k |-> "T", t |-> t]

Tensor(hi, is_window, type) ==
    [k |-> "Tensor", hi |-> hi, is_window |-> is_window, type |-> type]

WindowType(src_type, as_tensor, src_buf, idx) ==
    [k |-> "WindowType", src_type |-> src_type, as_tensor |-> as_tensor,
     src_buf |-> src_buf, idx |-> idx]

\* expressions
Read(name, idx, type) ==
    [k |-> "Read", oid |-> 1, name |-> name, idx |-> idx, type |-> type]

Const(val, type) == [k |-> "Const", oid |-> 1, val |-> val, type |-> type]

USub(arg, type) == [k |-> "USub", oid |-> 1, arg |-> arg, type |-> type]

BinOp(op, lhs, rhs, type) ==
    [k |-> "BinOp", oid |-> 1, op |-> op, lhs |-> lhs, rhs |-> rhs, type |-> type]

BuiltIn(f, args, type) ==
    [k |-> "BuiltIn", oid |-> 1, f |-> f, args |-> args, type |-> type]

WindowExpr(name, idx, type) ==
    [k |-> "WindowExpr", oid |-> 1, name |-> name, idx |-> idx, type |-> type]

StrideExpr(name, dim, type) ==
    [k |-> "StrideExpr", oid |-> 1, name |-> name, dim |-> dim, type |-> type]

ReadConfig(config, field, type) ==
    [k |-> "ReadConfig", oid |-> 1, config |-> config, field |-> field, type |-> type]

Interval(lo, hi) == [k |-> "Interval", lo |-> lo, hi |-> hi]

Point(pt) == [k |-> "Point", pt |-> pt]

\* statements
Assign(name, type, idx, rhs, eff) ==
    [k |-> "Assign", oid |-> 1, name |-> name, type |-> type, idx |-> idx,
     rhs |-> rhs, eff |-> eff]

Reduce(name, type, idx, rhs, eff) ==
    [k |-> "Reduce", oid |-> 1, name |-> name, type |-> type, idx |-> idx,
     rhs |-> rhs, eff |-> eff]

WriteConfig(config, field, rhs, eff) ==
    [k |-> "WriteConfig", oid |-> 1, config |-> config, field |-> field,
     rhs |-> rhs, eff |-> eff]

Pass(eff) == [k |-> "Pass", oid |-> 1, eff |-> eff]

If(cond, body, orelse, eff) ==
    [k |-> "If", oid |-> 1, cond |-> cond, body |-> body, orelse |-> orelse,
     eff |-> eff]

Seq_(iter, hi, body, eff) ==
    [k |-> "Seq", oid |-> 1, iter |-> iter, hi |-> hi, body |-> body, eff |-> eff]

Alloc(name, type, eff) ==
    [k |-> "Alloc", oid |-> 1, name |-> name, type |-> type, eff |-> eff]

Free(name, type, eff) ==
    [k |-> "Free", oid |-> 1, name |-> name, type |-> type, eff |-> eff]

Call(f, args, eff) == [k |-> "Call", oid |-> 1, f |-> f, args |-> args, eff |-> eff]

WindowStmt(lhs, rhs, eff) ==
    [k |-> "WindowStmt", oid |-> 1, lhs |-> lhs, rhs |-> rhs, eff |-> eff]

fnarg(name, type) == [k |-> "fnarg", name |-> name, type |-> type]

proc(args, preds, body, eff) ==
    [k |-> "proc", oid |-> 1, args |-> args, preds |-> preds, body |-> body,
     eff |-> eff]

\* a formal argument and an Alloc with their memory class (None when there
\* is no annotation), a procedure with its name and its instr template
fnarg_mem(name, type, mem) == [k |-> "fnarg", name |-> name, type |-> type, mem |-> mem]

Alloc_mem(name, type, mem) ==
    [k |-> "Alloc", oid |-> 1, name |-> name, type |-> type, mem |-> mem, eff |-> None]

Free_mem(name, type, mem) ==
    [k |-> "Free", oid |-> 1, name |-> name, type |-> type, mem |-> mem, eff |-> None]

proc_named(name, args, preds, body, template, eff) ==
    [k |-> "proc", oid |-> 1, name |-> name, args |-> args, preds |-> preds,
     body |-> body, instr |-> template, eff |-> eff]

\* effects
effect(reads, writes, reduces, config_reads, config_writes) ==
    [k |-> "effect", reads |-> reads, writes |-> writes, reduces |-> reduces,
     config_reads |-> config_reads, config_writes |-> config_writes]

effset(buffer, loc, names, pred) ==
    [k |-> "effset", buffer |-> buffer, loc |-> loc, names |-> names, pred |-> pred]

config_eff(config, field, value, pred) ==
    [k |-> "config_eff", config |-> config, field |-> field, value |-> value,
     pred |-> pred]

EVar(name, type) == [k |-> "Effects.Var", name |-> name, type |-> type]

ENot(arg, type) == [k |-> "Effects.Not", arg |-> arg, type |-> type]

EConst(val, type) == [k |-> "Effects.Const", val |-> val, type |-> type]

EBinOp(op, lhs, rhs, type) ==
    [k |-> "Effects.BinOp", op |-> op, lhs |-> lhs, rhs |-> rhs, type |-> type]

ESelect(cond, tcase, fcase, type) ==
    [k |-> "Effects.Select", cond |-> cond, tcase |-> tcase, fcase |-> fcase,
     type |-> type]

\* node.update(...): a new object
update(node) == [node EXCEPT !.oid = 0]

\* ------------------------------------------------------------------------
\* Part E: LoopIR_Rewrite.  A pass ps is a record: kind says which class
\* the pass object belongs to ("base" is LoopIR_Rewrite itself).  Every
\* map_* takes the state st of the pass object (env, the symbol counter, the
\* first exception raised) and returns [r |-> None or the new node, st].
\* An exception ends the pass: its name is kept in st.err.
\* ------------------------------------------------------------------------
Ret(r, st) == [r |-> r, st |-> st]

Raise(st, exc) == IF st.err = "" THEN [st EXCEPT !.err = exc] ELSE st

\* the methods of the pass object, resolved on its class
RECURSIVE dispatch(_, _, _, _)
RECURSIVE map_list_from(_, _, _, _, _, _)

\* self.map_*(x): the method m of the pass object, found by dispatch below
map_fnarg(ps, a, st) == dispatch(ps, "map_fnarg", a, st)

map_s(ps, x, st) == dispatch(ps, "map_s", x, st)

map_e(ps, x, st) == dispatch(ps, "map_e", x, st)

map_w_access(ps, w, st) == dispatch(ps, "map_w_access", w, st)

map_t(ps, t, st) == dispatch(ps, "map_t", t, st)

map_eff(ps, eff, st) == dispatch(ps, "map_eff", eff, st)

map_eff_es(ps, es, st) == dispatch(ps, "map_eff_es", es, st)

map_eff_ce(ps, ce, st) == dispatch(ps, "map_eff_ce", ce, st)

map_eff_e(ps, e, st) == dispatch(ps, "map_eff_e", e, st)

\* fn(s) of _map_list: fk names the bound method passed as fn; "fn" is a
\* function given by the table ps.fn over the identities of the nodes
call(ps, fk, x, st) ==
    IF fk = "fn" THEN Ret(ps.fn[x.oid], st) ELSE dispatch(ps, fk, x, st)

\* the for loop of _map_list and its return
map_list_from(ps, fk, nodes, new_stmts, needs_update, st) ==
    IF nodes = <<>>
    THEN Ret(IF needs_update THEN List(new_stmts) ELSE None, st)
    ELSE LET x == Head(nodes)
             c == call(ps, fk, x, st)
         IN IF IsNone(c.r)
            THEN map_list_from(ps, fk, Tail(nodes), Append(new_stmts, x),
                               needs_update, c.st)
            ELSE map_list_from(ps, fk, Tail(nodes),
                               IF IsList(c.r) THEN new_stmts \o c.r.items
                               ELSE Append(new_stmts, c.r),
                               TRUE, c.st)

map_list_always_list(ps, fk, nodes, st) ==
    map_list_from(ps, fk, nodes, <<>>, TRUE, st)

map_list(ps, fk, nodes, st) == map_list_from(ps, fk, nodes, <<>>, FALSE, st)

map_stmts(ps, stmts, st) == map_list(ps, "map_s", stmts, st)

map_exprs(ps, exprs, st) == map_list(ps, "map_e", exprs, st)

\* p.preds without the constants whose value is true
FilterPreds(preds) ==
    SelectSeq(preds, LAMBDA q : ~(q.k = "Const" /\ q.val # 0))

Rewrite_map_proc_nofilter(ps, p, st) ==
    LET a == map_list(ps, "map_fnarg", p.args, st)
        b == map_exprs(ps, p.preds, a.st)
        c == map_stmts(ps, p.body, b.st)
        d == map_eff(ps, p.eff, c.st)
    IN IF ~IsNone(a.r) \/ ~IsNone(b.r) \/ ~IsNone(c.r) \/ Truthy(d.r)
       THEN Ret([update(p) EXCEPT !.args = OrList(a.r, p.args),
                                  !.preds = OrList(b.r, p.preds),
                                  !.body = OrList(c.r, p.body),
                                  !.eff = OrNode(d.r, p.eff)], d.st)
       ELSE Ret(None, d.st)

Rewrite_map_proc(ps, p, st) ==
    LET a == map_list(ps, "map_fnarg", p.args, st)
        b == map_exprs(ps, p.preds, a.st)
        c == map_stmts(ps, p.body, b.st)
        d == map_eff(ps, p.eff, c.st)
    IN IF ~IsNone(a.r) \/ ~IsNone(b.r) \/ ~IsNone(c.r) \/ Truthy(d.r)
       THEN Ret([update(p) EXCEPT !.args = OrList(a.r, p.args),
                                  !.preds = FilterPreds(OrList(b.r, p.preds)),
                                  !.body = OrList(c.r, p.body),
                                  !.eff = OrNode(d.r, p.eff)], d.st)
       ELSE Ret(None, d.st)

Rewrite_map_fnarg(ps, a, st) ==
    LET t == map_t(ps, a.type, st)
    IN IF Truthy(t.r) THEN Ret([a EXCEPT !.type = t.r], t.st) ELSE Ret(None, t.st)

Rewrite_map_s(ps, s, st) ==
    CASE s.k \in {"Assign", "Reduce"} ->
           LET t == map_t(ps, s.type, st)
               i == map_exprs(ps, s.idx, t.st)
               r == map_e(ps, s.rhs, i.st)
               f == map_eff(ps, s.eff, r.st)
           IN IF Truthy(t.r) \/ ~IsNone(i.r) \/ Truthy(r.r) \/ Truthy(f.r)
              THEN Ret(List(<<[update(s) EXCEPT !.type = OrNode(t.r, s.type),
                                               !.idx = OrList(i.r, s.idx),
                                               !.rhs = OrNode(r.r, s.rhs),
                                               !.eff = OrNode(f.r, s.eff)]>>), f.st)
              ELSE Ret(None, f.st)
      [] s.k \in {"WriteConfig", "WindowStmt"} ->
           LET r == map_e(ps, s.rhs, st)
               f == map_eff(ps, s.eff, r.st)
           IN IF Truthy(r.r) \/ Truthy(f.r)
              THEN Ret(List(<<[update(s) EXCEPT !.rhs = OrNode(r.r, s.rhs),
                                               !.eff = OrNode(f.r, s.eff)]>>), f.st)
              ELSE Ret(None, f.st)
      [] s.k = "If" ->
           LET c == map_e(ps, s.cond, st)
               b == map_stmts(ps, s.body, c.st)
               o == map_stmts(ps, s.orelse, b.st)
               f == map_eff(ps, s.eff, o.st)
           IN IF Truthy(c.r) \/ ~IsNone(b.r) \/ ~IsNone(o.r) \/ Truthy(f.r)
              THEN Ret(List(<<[update(s) EXCEPT !.cond = OrNode(c.r, s.cond),
                                               !.body = OrList(b.r, s.body),
                                               !.orelse = OrList(o.r, s.orelse),
                                               !.eff = OrNode(f.r, s.eff)]>>), f.st)
              ELSE Ret(None, f.st)
      [] s.k = "Seq" ->
           LET h == map_e(ps, s.hi, st)
               b == map_stmts(ps, s.body, h.st)
               f == map_eff(ps, s.eff, b.st)
           IN IF Truthy(h.r) \/ ~IsNone(b.r) \/ Truthy(f.r)
              THEN Ret(List(<<[update(s) EXCEPT !.hi = OrNode(h.r, s.hi),
                                               !.body = OrList(b.r, s.body),
                                               !.eff = OrNode(f.r, s.eff)]>>), f.st)
              ELSE Ret(None, f.st)
      [] s.k = "Call" ->
           LET a == map_exprs(ps, s.args, st)
               f == map_eff(ps, s.eff, a.st)
           IN IF ~IsNone(a.r) \/ Truthy(f.r)
              THEN Ret(List(<<[update(s) EXCEPT !.args = OrList(a.r, s.args),
                                               !.eff = OrNode(f.r, s.eff)]>>), f.st)
              ELSE Ret(None, f.st)
      [] s.k = "Alloc" ->
           LET t == map_t(ps, s.type, st)
               f == map_eff(ps, s.eff, t.st)
           IN IF Truthy(t.r) \/ Truthy(f.r)
              THEN Ret(List(<<[update(s) EXCEPT !.type = OrNode(t.r, s.type),
                                               !.eff = OrNode(f.r, s.eff)]>>), f.st)
              ELSE Ret(None, f.st)
      [] s.k = "Pass" -> Ret(None, st)
      [] OTHER -> Ret(None, Raise(st, "NotImplementedError"))

Rewrite_map_e(ps, e, st) ==
    CASE e.k = "Read" ->
           LET t == map_t(ps, e.type, st)
               i == map_exprs(ps, e.idx, t.st)
           IN IF Truthy(t.r) \/ ~IsNone(i.r)
              THEN Ret([update(e) EXCEPT !.idx = OrList(i.r, e.idx),
                                         !.type = OrNode(t.r, e.type)], i.st)
              ELSE Ret(None, i.st)
      [] e.k = "BinOp" ->
           LET l == map_e(ps, e.lhs, st)
               r == map_e(ps, e.rhs, l.st)
               t == map_t(ps, e.type, r.st)
           IN IF Truthy(l.r) \/ Truthy(r.r) \/ Truthy(t.r)
              THEN Ret([update(e) EXCEPT !.lhs = OrNode(l.r, e.lhs),
                                         !.rhs = OrNode(r.r, e.rhs),
                                         !.type = OrNode(t.r, e.type)], t.st)
              ELSE Ret(None, t.st)
      [] e.k = "BuiltIn" ->
           LET t == map_t(ps, e.type, st)
               a == map_exprs(ps, e.args, t.st)
           IN IF Truthy(t.r) \/ ~IsNone(a.r)
              THEN Ret([update(e) EXCEPT !.args = OrList(a.r, e.args),
                                         !.type = OrNode(t.r, e.type)], a.st)
              ELSE Ret(None, a.st)
      [] e.k = "USub" ->
           LET a == map_e(ps, e.arg, st)
               t == map_t(ps, e.type, a.st)
           IN IF Truthy(a.r) \/ Truthy(t.r)
              THEN Ret([update(e) EXCEPT !.arg = OrNode(a.r, e.arg),
                                         !.type = OrNode(t.r, e.type)], t.st)
              ELSE Ret(None, t.st)
      [] e.k = "WindowExpr" ->
           LET i == map_list(ps, "map_w_access", e.idx, st)
               t == map_t(ps, e.type, i.st)
           IN IF ~IsNone(i.r) \/ Truthy(t.r)
              THEN Ret([update(e) EXCEPT !.idx = OrList(i.r, e.idx),
                                         !.type = OrNode(t.r, e.type)], t.st)
              ELSE Ret(None, t.st)
      [] e.k = "ReadConfig" ->
           LET t == map_t(ps, e.type, st)
           IN IF Truthy(t.r)
              THEN Ret([update(e) EXCEPT !.type = t.r], t.st)
              ELSE Ret(None, t.st)
      [] e.k \in {"Const", "StrideExpr"} -> Ret(None, st)
      [] OTHER -> Ret(None, Raise(st, "NameError"))

Rewrite_map_w_access(ps, w, st) ==
    IF w.k = "Interval"
    THEN LET l == map_e(ps, w.lo, st)
             h == map_e(ps, w.hi, l.st)
         IN IF Truthy(l.r) \/ Truthy(h.r)
            THEN Ret([w EXCEPT !.lo = OrNode(l.r, w.lo),
                               !.hi = OrNode(h.r, w.hi)], h.st)
            ELSE Ret(None, h.st)
    ELSE LET q == map_e(ps, w.pt, st)
         IN IF Truthy(q.r)
            THEN Ret([w EXCEPT !.pt = q.r], q.st)
            ELSE Ret(None, q.st)

Rewrite_map_t(ps, t, st) ==
    CASE t.k = "Tensor" ->
           LET h == map_exprs(ps, t.hi, st)
               e == map_t(ps, t.type, h.st)
           IN IF ~IsNone(h.r) \/ Truthy(e.r)
              THEN Ret([t EXCEPT !.hi = OrList(h.r, t.hi),
                                 !.type = OrNode(e.r, t.type)], e.st)
              ELSE Ret(None, e.st)
      [] t.k = "WindowType" ->
           LET a == map_t(ps, t.src_type, st)
               b == map_t(ps, t.as_tensor, a.st)
               i == map_list(ps, "map_w_access", t.idx, b.st)
           IN IF Truthy(a.r) \/ Truthy(b.r) \/ ~IsNone(i.r)
              THEN Ret([t EXCEPT !.src_type = OrNode(a.r, t.src_type),
                                 !.as_tensor = OrNode(b.r, t.as_tensor),
                                 !.idx = OrList(i.r, t.idx)], i.st)
              ELSE Ret(None, i.st)
      [] OTHER -> Ret(None, st)

Rewrite_map_eff(ps, eff, st) ==
    IF IsNone(eff) THEN Ret(None, st)
    ELSE LET a == map_list(ps, "map_eff_es", eff.reads, st)
             b == map_list(ps, "map_eff_es", eff.writes, a.st)
             c == map_list(ps, "map_eff_es", eff.reduces, b.st)
             d == map_list(ps, "map_eff_ce", eff.config_reads, c.st)
             e == map_list(ps, "map_eff_ce", eff.config_writes, d.st)
         IN IF ~IsNone(a.r) \/ ~IsNone(b.r) \/ ~IsNone(c.r) \/ ~IsNone(d.r)
                \/ ~IsNone(e.r)
            THEN Ret([eff EXCEPT !.reads = OrList(a.r, eff.reads),
                                 !.writes = OrList(b.r, eff.writes),
                                 !.reduces = OrList(c.r, eff.reduces),
                                 !.config_reads = OrList(d.r, eff.config_reads),
                                 !.config_writes = OrList(e.r, eff.config_writes)],
                     e.st)
            ELSE Ret(None, e.st)

Rewrite_map_eff_es(ps, es, st) ==
    LET l == map_list(ps, "map_eff_e", es.loc, st)
        q == map_eff_e(ps, es.pred, l.st)
    IN IF ~IsNone(l.r) \/ Truthy(q.r)
       THEN Ret([es EXCEPT !.loc = OrList(l.r, es.loc),
                           !.pred = OrNode(q.r, es.pred)], q.st)
       ELSE Ret(None, q.st)

Rewrite_map_eff_ce(ps, ce, st) ==
    LET v == map_eff_e(ps, ce.value, st)
        q == map_eff_e(ps, ce.pred, v.st)
    IN IF Truthy(v.r) \/ Truthy(q.r)
       THEN Ret([ce EXCEPT !.value = OrNode(v.r, ce.value),
                           !.pred = OrNode(q.r, ce.pred)], q.st)
       ELSE Ret(None, q.st)

Rewrite_map_eff_e(ps, e, st) ==
    IF e.k = "Effects.BinOp"
    THEN LET l == map_eff_e(ps, e.lhs, st)
             r == map_eff_e(ps, e.rhs, l.st)
         IN IF Truthy(l.r) \/ Truthy(r.r)
            THEN Ret([e EXCEPT !.lhs = OrNode(l.r, e.lhs),
                               !.rhs = OrNode(r.r, e.rhs)], r.st)
            ELSE Ret(None, r.st)
    ELSE Ret(None, st)

\* ------------------------------------------------------------------------
\* Part F: the binder passes.  env is a ChainMap: a sequence of dicts, the
\* innermost first.  Sym.copy() draws a symbol never used before.
\* ------------------------------------------------------------------------
EmptyDict == [x \in {} |-> 0]

ChainMap == <<EmptyDict>>

new_child(env) == <<EmptyDict>> \o env

parents(env) == Tail(env)

EnvHas(env, key) == \E i \in DOMAIN env : key \in DOMAIN env[i]

\* env[key], env.get(key) when the key is present
EnvGet(env, key) ==
    LET i == CHOOSE j \in DOMAIN env :
                /\ key \in DOMAIN env[j]
                /\ \A h \in 1..(j - 1) : key \notin DOMAIN env[h]
    IN env[i][key]

\* env.get(key, key)
EnvGetOr(env, key) == IF EnvHas(env, key) THEN EnvGet(env, key) ELSE key

\* env[key] = val
EnvSet(env, key, val) == [env EXCEPT ![1] = (key :> val) @@ @]

push(st) == [st EXCEPT !.env = new_child(@)]

pop(st) == [st EXCEPT !.env = parents(@)]

\* the state after nm = sym.copy(); self.env[sym] = nm
BindStale(st, sym) == [st EXCEPT !.env = EnvSet(@, sym, sym)]

BindFresh(st, sym) ==
    [st EXCEPT !.env = EnvSet(@, sym, st.nxt), !.nxt = @ + 1]

\* names = [nm.copy() for nm in es.names]; self.env[orig] = new for each
RECURSIVE BindNames(_, _)
BindNames(st, names) ==
    IF names = <<>> THEN st ELSE BindNames(BindFresh(st, Head(names)), Tail(names))

\* s2[0] when map_s returned a list, else s
FirstOr(s2, s) == IF Truthy(s2) THEN s2.items[1] ELSE s

Alpha_map_fnarg(ps, fa, st) ==
    LET st1 == BindFresh(st, fa.name)
        t == map_t(ps, fa.type, st1)
    IN Ret([fa EXCEPT !.name = EnvGet(st1.env, fa.name),
                      !.type = OrNode(t.r, fa.type)], t.st)

Alpha_map_s(ps, s, st) ==
    CASE s.k \in {"Assign", "Reduce"} ->
           LET s2 == dispatch(ps, "LoopIR_Rewrite.map_s", s, st)
           IN IF EnvHas(s2.st.env, s.name)
              THEN Ret(List(<<[update(FirstOr(s2.r, s)) EXCEPT
                                 !.name = EnvGet(s2.st.env, s.name)]>>), s2.st)
              ELSE s2
      [] s.k = "Alloc" ->
           LET s2 == dispatch(ps, "LoopIR_Rewrite.map_s", s, st)
               st1 == IF EnvHas(s2.st.env, s.name)
                      THEN Raise(s2.st, "AssertionError") ELSE s2.st
               st2 == BindFresh(st1, s.name)
           IN Ret(List(<<[update(FirstOr(s2.r, s)) EXCEPT
                            !.name = EnvGet(st2.env, s.name)]>>), st2)
      [] s.k = "WindowStmt" ->
           LET r == map_e(ps, s.rhs, st)
               st1 == BindFresh(r.st, s.lhs)
               f == map_eff(ps, s.eff, st1)
           IN Ret(List(<<[update(s) EXCEPT !.lhs = EnvGet(st1.env, s.lhs),
                                           !.rhs = OrNode(r.r, s.rhs),
                                           !.eff = OrNode(f.r, s.eff)]>>), f.st)
      [] s.k = "If" ->
           LET stmts == dispatch(ps, "LoopIR_Rewrite.map_s", s, push(st))
           IN Ret(stmts.r, pop(stmts.st))
      [] s.k = "Seq" ->
           LET h == map_e(ps, s.hi, st)
               f == map_eff(ps, s.eff, h.st)
               st1 == BindFresh(push(f.st), s.iter)
               b == map_stmts(ps, s.body, st1)
           IN Ret(List(<<[update(s) EXCEPT !.iter = EnvGet(st1.env, s.iter),
                                           !.hi = OrNode(h.r, s.hi),
                                           !.body = OrList(b.r, s.body),
                                           !.eff = OrNode(f.r, s.eff)]>>),
                  pop(b.st))
      [] OTHER -> dispatch(ps, "LoopIR_Rewrite.map_s", s, st)

Alpha_map_e(ps, e, st) ==
    IF e.k \in {"Read", "WindowExpr", "StrideExpr"}
    THEN LET e2 == dispatch(ps, "LoopIR_Rewrite.map_e", e, st)
         IN IF EnvHas(e2.st.env, e.name)
            THEN Ret([update(OrNode(e2.r, e)) EXCEPT
                        !.name = EnvGet(e2.st.env, e.name)], e2.st)
            ELSE e2
    ELSE dispatch(ps, "LoopIR_Rewrite.map_e", e, st)

Alpha_map_eff_es(ps, es, st) ==
    LET st1 == BindNames(push(st), es.names)
        eset == dispatch(ps, "LoopIR_Rewrite.map_eff_es", es, st1)
        env == eset.st.env
    IN Ret([OrNode(eset.r, es) EXCEPT
              !.buffer = EnvGetOr(env, es.buffer),
              !.names = [i \in DOMAIN es.names |-> st.nxt + i - 1]],
           pop(eset.st))

Alpha_map_eff_e(ps, e, st) ==
    IF e.k = "Effects.Var"
    THEN Ret([e EXCEPT !.name = EnvGetOr(st.env, e.name)], st)
    ELSE dispatch(ps, "LoopIR_Rewrite.map_eff_e", e, st)

Alpha_map_t(ps, t, st) ==
    LET t2 == dispatch(ps, "LoopIR_Rewrite.map_t", t, st)
    IN IF t.k = "WindowType" /\ EnvHas(t2.st.env, t.src_buf)
       THEN Ret([OrNode(t2.r, t) EXCEPT !.src_buf = EnvGet(t2.st.env, t.src_buf)],
                t2.st)
       ELSE t2

is_indexable(t) == t.k = "T" /\ t.t \in {"int", "index", "size"}

\* lift_to_eff_expr(e) returns: no assert on the way fails
RECURSIVE Liftable(_)
Liftable(e) ==
    CASE e.k = "Read" -> e.idx = <<>>
      [] e.k \in {"Const", "StrideExpr", "ReadConfig"} -> TRUE
      [] e.k = "BinOp" -> Liftable(e.lhs) /\ Liftable(e.rhs)
      [] e.k = "USub" -> Liftable(e.arg)
      [] OTHER -> FALSE

RECURSIVE lift_to_eff_expr(_)
lift_to_eff_expr(e) ==
    CASE e.k = "Read" -> EVar(e.name, e.type)
      [] e.k = "Const" -> EConst(e.val, e.type)
      [] e.k = "BinOp" ->
           EBinOp(e.op, lift_to_eff_expr(e.lhs), lift_to_eff_expr(e.rhs), e.type)
      [] e.k = "USub" ->
           EBinOp("-", EConst(0, e.type), lift_to_eff_expr(e.arg), e.type)
      [] e.k = "StrideExpr" ->
           [k |-> "Effects.Stride", name |-> e.name, dim |-> e.dim,
            type |-> e.type]
      [] e.k = "ReadConfig" ->
           [k |-> "Effects.ConfigField", config |-> e.config, field |-> e.field,
            type |-> e.type]

\* SubstArgs: self.env is the binding, a dict from symbols to expressions
Bound(ps, sym) == sym \in DOMAIN ps.binding

\* assert isinstance(sub_e, LoopIR.Read) and len(sub_e.idx) == 0
AssertRead0(st, sub_e) ==
    IF sub_e.k = "Read" /\ sub_e.idx = <<>> THEN st ELSE Raise(st, "AssertionError")

\* sub_e.name, None when the raised error has already ended the pass
NameOf(sub_e) == IF sub_e.k \in {"Read", "WindowExpr", "StrideExpr"}
                 THEN sub_e.name ELSE 0

Subst_map_s_rebuild(ps, s, st) ==
    LET s2 == dispatch(ps, "LoopIR_Rewrite.map_s", s, st)
    IN Ret(List(<<update(FirstOr(s2.r, s))>>), s2.st)

Subst_map_s(ps, s, st) ==
    LET s2 == dispatch(ps, "LoopIR_Rewrite.map_s", s, st)
        s_new == FirstOr(s2.r, s)
    IN IF s.k \in {"Assign", "Reduce"} /\ Bound(ps, s.name)
       THEN LET sym == ps.binding[s.name]
            IN Ret(List(<<[update(s_new) EXCEPT !.name = NameOf(sym)]>>),
                   AssertRead0(s2.st, sym))
       ELSE s2

Subst_map_e(ps, e, st) ==
    CASE e.k = "Read" /\ Bound(ps, e.name) ->
           LET sub_e == ps.binding[e.name]
           IN IF e.idx = <<>> THEN Ret(sub_e, st)
              ELSE LET i == map_exprs(ps, e.idx, AssertRead0(st, sub_e))
                   IN Ret([update(e) EXCEPT !.name = NameOf(sub_e),
                                            !.idx = OrList(i.r, e.idx)], i.st)
      [] e.k = "WindowExpr" /\ Bound(ps, e.name) ->
           LET sub_e == ps.binding[e.name]
           IN IF e.idx = <<>> THEN Ret(sub_e, st)
              ELSE LET e2 == dispatch(ps, "LoopIR_Rewrite.map_e", e, AssertRead0(st, sub_e))
                   IN Ret([update(OrNode(e2.r, e)) EXCEPT !.name = NameOf(sub_e)],
                          e2.st)
      [] e.k = "StrideExpr" /\ Bound(ps, e.name) ->
           LET sub_e == ps.binding[e.name]
           IN IF NameOf(sub_e) = 0
              THEN Ret(None, Raise(st, "AttributeError"))
              ELSE Ret([update(e) EXCEPT !.name = NameOf(sub_e)], st)
      [] OTHER -> dispatch(ps, "LoopIR_Rewrite.map_e", e, st)

Subst_map_eff_es(ps, es, st) ==
    IF Bound(ps, es.buffer)
    THEN LET sub_e == ps.binding[es.buffer]
             es2 == dispatch(ps, "LoopIR_Rewrite.map_eff_es", es, AssertRead0(st, sub_e))
         IN Ret([OrNode(es2.r, es) EXCEPT !.buffer = NameOf(sub_e)], es2.st)
    ELSE dispatch(ps, "LoopIR_Rewrite.map_eff_es", es, st)

Subst_map_eff_e(ps, e, st) ==
    IF e.k = "Effects.Var" /\ Bound(ps, e.name)
    THEN LET sub_e == ps.binding[e.name]
         IN IF (~is_indexable(e.type) \/ is_indexable(sub_e.type))
               /\ Liftable(sub_e)
            THEN Ret(lift_to_eff_expr(sub_e), st)
            ELSE Ret(None, Raise(st, "AssertionError"))
    ELSE dispatch(ps, "LoopIR_Rewrite.map_eff_e", e, st)

Subst_map_t(ps, t, st) ==
    LET t2 == dispatch(ps, "LoopIR_Rewrite.map_t", t, st)
    IN IF t.k = "WindowType" /\ Bound(ps, t.src_buf)
       THEN IF NameOf(ps.binding[t.src_buf]) = 0
            THEN Ret(None, Raise(t2.st, "AttributeError"))
            ELSE Ret([OrNode(t2.r, t) EXCEPT
                        !.src_buf = NameOf(ps.binding[t.src_buf])], t2.st)
       ELSE t2

\* a pass that overrides map_s and map_e: the nodes named by ps.smap and
\* ps.emap are replaced by what the tables give, the others go to super()
Custom_map_s(ps, s, st) ==
    IF s.oid \in DOMAIN ps.smap THEN Ret(List(ps.smap[s.oid]), st)
    ELSE dispatch(ps, "LoopIR_Rewrite.map_s", s, st)

Custom_map_e(ps, e, st) ==
    IF e.oid \in DOMAIN ps.emap THEN Ret(ps.emap[e.oid], st)
    ELSE dispatch(ps, "LoopIR_Rewrite.map_e", e, st)

\* a pass that overrides map_s, map_e, map_t and map_eff to note, in
\* st.log, each call made on a child of the node it was started on, and
\* then goes to super(); st.depth counts the calls that are open
Noted(st, c, x) ==
    IF st.depth = 1 THEN [st EXCEPT !.log = Append(@, [c |-> c, x |-> x])] ELSE st

Trace_super(ps, m, x, st) ==
    LET r == dispatch(ps, m, x, [st EXCEPT !.depth = @ + 1])
    IN Ret(r.r, [r.st EXCEPT !.depth = @ - 1])

Trace_map_s(ps, s, st) == Trace_super(ps, "LoopIR_Rewrite.map_s", s, st)

Trace_map_e(ps, e, st) ==
    Trace_super(ps, "LoopIR_Rewrite.map_e", e, Noted(st, "expr", e))

Trace_map_t(ps, t, st) ==
    Trace_super(ps, "LoopIR_Rewrite.map_t", t, Noted(st, "type", t))

Trace_map_eff(ps, eff, st) ==
    Trace_super(ps, "LoopIR_Rewrite.map_eff", eff, Noted(st, "effect", eff))

\* method resolution: the class of the pass object, then LoopIR_Rewrite
dispatch(ps, m, x, st) ==
    CASE m = "map_fnarg" ->
           IF ps.kind = "alpha" THEN Alpha_map_fnarg(ps, x, st)
           ELSE Rewrite_map_fnarg(ps, x, st)
      [] m = "map_s" ->
           CASE ps.kind = "alpha" -> Alpha_map_s(ps, x, st)
             [] ps.kind = "subst" -> Subst_map_s(ps, x, st)
             [] ps.kind = "custom" -> Custom_map_s(ps, x, st)
             [] ps.kind = "trace" -> Trace_map_s(ps, x, st)
             [] OTHER -> Rewrite_map_s(ps, x, st)
      [] m = "map_e" ->
           CASE ps.kind = "alpha" -> Alpha_map_e(ps, x, st)
             [] ps.kind = "subst" -> Subst_map_e(ps, x, st)
             [] ps.kind = "custom" -> Custom_map_e(ps, x, st)
             [] ps.kind = "trace" -> Trace_map_e(ps, x, st)
             [] OTHER -> Rewrite_map_e(ps, x, st)
      [] m = "map_w_access" -> Rewrite_map_w_access(ps, x, st)
      [] m = "map_t" ->
           CASE ps.kind = "alpha" -> Alpha_map_t(ps, x, st)
             [] ps.kind = "subst" -> Subst_map_t(ps, x, st)
             [] ps.kind = "trace" -> Trace_map_t(ps, x, st)
             [] OTHER -> Rewrite_map_t(ps, x, st)
      [] m = "map_eff" ->
           IF ps.kind = "trace" THEN Trace_map_eff(ps, x, st)
           ELSE Rewrite_map_eff(ps, x, st)
      [] m = "map_eff_es" ->
           CASE ps.kind = "alpha" -> Alpha_map_eff_es(ps, x, st)
             [] ps.kind = "subst" -> Subst_map_eff_es(ps, x, st)
             [] OTHER -> Rewrite_map_eff_es(ps, x, st)
      [] m = "map_eff_ce" -> Rewrite_map_eff_ce(ps, x, st)
      [] m = "map_eff_e" ->
           CASE ps.kind = "alpha" -> Alpha_map_eff_e(ps, x, st)
             [] ps.kind = "subst" -> Subst_map_eff_e(ps, x, st)
             [] OTHER -> Rewrite_map_eff_e(ps, x, st)
      [] m = "map_proc" -> Rewrite_map_proc(ps, x, st)
      \* super().map_*(x) of a subclass
      [] m = "LoopIR_Rewrite.map_s" -> Rewrite_map_s(ps, x, st)
      [] m = "LoopIR_Rewrite.map_e" -> Rewrite_map_e(ps, x, st)
      [] m = "LoopIR_Rewrite.map_t" -> Rewrite_map_t(ps, x, st)
      [] m = "LoopIR_Rewrite.map_eff" -> Rewrite_map_eff(ps, x, st)
      [] m = "LoopIR_Rewrite.map_eff_es" -> Rewrite_map_eff_es(ps, x, st)
      [] m = "LoopIR_Rewrite.map_eff_e" -> Rewrite_map_eff_e(ps, x, st)

map_proc(ps, p, st) == dispatch(ps, "map_proc", p, st)

\* continue with the value and the state that a call returned
With(r, F(_, _)) == F(r.r, r.st)

\* apply_*: the node itself when the map_* returned None
apply_proc(ps, old, st) ==
    With(map_proc(ps, old, st), LAMBDA n, s : Ret(OrNode(n, old), s))

apply_s(ps, old, st) ==
    With(map_s(ps, old, st),
         LAMBDA n, s : Ret(IF ~IsNone(n) THEN n.items ELSE <<old>>, s))

apply_e(ps, old, st) ==
    With(map_e(ps, old, st), LAMBDA n, s : Ret(OrNode(n, old), s))

apply_eff(ps, old, st) ==
    With(map_eff(ps, old, st), LAMBDA n, s : Ret(OrNode(n, old), s))

StmtKinds == {"Assign", "Reduce", "WriteConfig", "Pass", "If", "Seq", "Alloc",
              "Free", "Call", "WindowStmt"}

ExprKinds == {"Read", "Const", "USub", "BinOp", "BuiltIn", "WindowExpr",
              "StrideExpr", "ReadConfig"}

\* the loop of Alpha_Rename.__init__ and of SubstArgs.__init__ over a list
RECURSIVE apply_nodes(_, _, _, _)
apply_nodes(ps, nodes, acc, st) ==
    IF nodes = <<>> THEN Ret(acc, st)
    ELSE LET n == Head(nodes)
         IN With(CASE n.k \in StmtKinds -> apply_s(ps, n, st)
                   [] n.k \in ExprKinds ->
                        With(apply_e(ps, n, st), LAMBDA e, s : Ret(<<e>>, s))
                   [] n.k = "effect" /\ ps.kind = "alpha" ->
                        With(apply_eff(ps, n, st), LAMBDA e, s : Ret(<<e>>, s))
                   [] OTHER -> Ret(<<>>, Raise(st, "AssertionError")),
                 LAMBDA r, s : apply_nodes(ps, Tail(nodes), acc \o r, s))

\* ------------------------------------------------------------------------
\* LoopIR_Do and FreeVars.  The state of the visitor is [env, fv].
\* ------------------------------------------------------------------------
RECURSIVE do_dispatch(_, _, _)
RECURSIVE do_list(_, _, _)

\* self.do_*(x): the method m of the visitor, found by do_dispatch below
do_s(s, st) == do_dispatch("do_s", s, st)

do_e(e, st) == do_dispatch("do_e", e, st)

do_w_access(w, st) == do_dispatch("do_w_access", w, st)

do_t(t, st) == do_dispatch("do_t", t, st)

do_eff_es(es, st) == do_dispatch("do_eff_es", es, st)

do_eff_e(e, st) == do_dispatch("do_eff_e", e, st)

do_call(fk, x, st) == do_dispatch(fk, x, st)

\* for x in nodes: self.fk(x)
do_list(fk, nodes, st) ==
    IF nodes = <<>> THEN st
    ELSE do_list(fk, Tail(nodes), do_call(fk, Head(nodes), st))

do_stmts(stmts, st) == do_list("do_s", stmts, st)

LoopIR_Do_do_eff(eff, st) ==
    IF IsNone(eff) THEN st
    ELSE do_list("do_eff_es", eff.reduces,
           do_list("do_eff_es", eff.writes,
             do_list("do_eff_es", eff.reads, st)))

do_eff(eff, st) == do_dispatch("do_eff", eff, st)

LoopIR_Do_do_s(s, st) ==
    LET st1 ==
          CASE s.k \in {"Assign", "Reduce"} ->
                 do_t(s.type, do_e(s.rhs, do_list("do_e", s.idx, st)))
            [] s.k \in {"WriteConfig", "WindowStmt"} -> do_e(s.rhs, st)
            [] s.k = "If" ->
                 do_stmts(s.orelse, do_stmts(s.body, do_e(s.cond, st)))
            [] s.k = "Seq" -> do_stmts(s.body, do_e(s.hi, st))
            [] s.k = "Call" -> do_list("do_e", s.args, st)
            [] s.k = "Alloc" -> do_t(s.type, st)
            [] OTHER -> st
    IN do_eff(s.eff, st1)

LoopIR_Do_do_e(e, st) ==
    LET st1 ==
          CASE e.k = "Read" -> do_list("do_e", e.idx, st)
            [] e.k = "BinOp" -> do_e(e.rhs, do_e(e.lhs, st))
            [] e.k = "BuiltIn" -> do_list("do_e", e.args, st)
            [] e.k = "USub" -> do_e(e.arg, st)
            [] e.k = "WindowExpr" -> do_list("do_w_access", e.idx, st)
            [] OTHER -> st
    IN do_t(e.type, st1)

LoopIR_Do_do_w_access(w, st) ==
    IF w.k = "Interval" THEN do_e(w.hi, do_e(w.lo, st)) ELSE do_e(w.pt, st)

LoopIR_Do_do_t(t, st) ==
    CASE t.k = "Tensor" -> do_list("do_e", t.hi, st)
      [] t.k = "WindowType" ->
           do_list("do_w_access", t.idx, do_t(t.as_tensor, do_t(t.src_type, st)))
      [] OTHER -> st

LoopIR_Do_do_eff_es(es, st) ==
    LET st1 == do_list("do_eff_e", es.loc, st)
    IN IF IsNone(es.pred) THEN st1 ELSE do_eff_e(es.pred, st1)

LoopIR_Do_do_eff_e(e, st) ==
    IF e.k = "Effects.BinOp" THEN do_eff_e(e.rhs, do_eff_e(e.lhs, st)) ELSE st

\* if name not in self.env: self.fv.add(name)
Ref(st, name) ==
    IF EnvHas(st.env, name) THEN st ELSE [st EXCEPT !.fv = @ \cup {name}]

\* self.env[name] = True
Bind(st, name) == [st EXCEPT !.env = EnvSet(@, name, TRUE)]

RECURSIVE BindAll(_, _)
BindAll(st, names) ==
    IF names = <<>> THEN st ELSE BindAll(Bind(st, Head(names)), Tail(names))

FreeVars_do_s_scope_per_branch(s, st) ==
    CASE s.k = "If" ->
           do_eff(s.eff,
             pop(do_stmts(s.orelse, push(pop(do_stmts(s.body, push(do_e(s.cond, st))))))))
      [] s.k = "Seq" ->
           do_eff(s.eff,
             pop(do_stmts(s.body, Bind(push(do_e(s.hi, st)), s.iter))))
      [] s.k \in {"Assign", "Reduce"} -> do_dispatch("LoopIR_Do.do_s", s, Ref(st, s.name))
      [] s.k = "WindowStmt" -> do_dispatch("LoopIR_Do.do_s", s, Bind(st, s.lhs))
      [] s.k = "Alloc" -> do_dispatch("LoopIR_Do.do_s", s, Bind(st, s.name))
      [] OTHER -> do_dispatch("LoopIR_Do.do_s", s, st)

FreeVars_do_s(s, st) ==
    CASE s.k = "If" ->
           do_eff(s.eff,
             pop(do_stmts(s.orelse, do_stmts(s.body, push(do_e(s.cond, st))))))
      [] s.k = "Seq" ->
           do_eff(s.eff,
             pop(do_stmts(s.body, Bind(push(do_e(s.hi, st)), s.iter))))
      [] s.k \in {"Assign", "Reduce"} -> do_dispatch("LoopIR_Do.do_s", s, Ref(st, s.name))
      [] s.k = "WindowStmt" -> do_dispatch("LoopIR_Do.do_s", s, Bind(st, s.lhs))
      [] s.k = "Alloc" -> do_dispatch("LoopIR_Do.do_s", s, Bind(st, s.name))
      [] OTHER -> do_dispatch("LoopIR_Do.do_s", s, st)

FreeVars_do_e(e, st) ==
    IF e.k \in {"Read", "WindowExpr", "StrideExpr"}
    THEN do_dispatch("LoopIR_Do.do_e", e, Ref(st, e.name))
    ELSE do_dispatch("LoopIR_Do.do_e", e, st)

FreeVars_do_t(t, st) ==
    IF t.k = "WindowType"
    THEN do_dispatch("LoopIR_Do.do_t", t, Ref(st, t.src_buf))
    ELSE do_dispatch("LoopIR_Do.do_t", t, st)

FreeVars_do_eff_es(es, st) ==
    pop(do_dispatch("LoopIR_Do.do_eff_es", es, BindAll(push(Ref(st, es.buffer)), es.names)))

FreeVars_do_eff_e(e, st) ==
    IF e.k = "Effects.Var"
    THEN do_dispatch("LoopIR_Do.do_eff_e", e, Ref(st, e.name))
    ELSE do_dispatch("LoopIR_Do.do_eff_e", e, st)

\* the visitor is a LoopIR_FindConfigs object
IsFindConfigs(st) == "configs" \in DOMAIN st

\* LoopIR_FindConfigs.do_s and do_e; its do_eff and do_t do nothing
FindConfigs_do_s(s, st) ==
    do_dispatch("LoopIR_Do.do_s", s,
                IF s.k = "WriteConfig" THEN [st EXCEPT !.configs = @ \cup {s.config}]
                ELSE st)

FindConfigs_do_e(e, st) ==
    IF e.k = "ReadConfig" THEN [st EXCEPT !.configs = @ \cup {e.config}]
    ELSE do_dispatch("LoopIR_Do.do_e", e, st)

\* method resolution: the class of the visitor (LoopIR_FindConfigs or
\* FreeVars), then LoopIR_Do.  Python evaluates the
\* argument st before the call; the test on st.env makes the evaluation
\* of the model do the same (an env always holds at least one scope).
\* the visitor that notes its calls: its state has a log
IsTrace(st) == "log" \in DOMAIN st

Trace_do(m, x, st) ==
    [do_dispatch(m, x, [st EXCEPT !.depth = @ + 1]) EXCEPT !.depth = @ - 1]

Trace_do_s(s, st) == Trace_do("LoopIR_Do.do_s", s, st)

Trace_do_e(e, st) == Trace_do("LoopIR_Do.do_e", e, Noted(st, "expr", e))

Trace_do_t(t, st) == Trace_do("LoopIR_Do.do_t", t, Noted(st, "type", t))

Trace_do_eff(eff, st) == Trace_do("LoopIR_Do.do_eff", eff, Noted(st, "effect", eff))

do_dispatch(m, x, st) ==
    IF st.env = <<>> THEN st
    ELSE CASE m = "do_s" /\ IsTrace(st) -> Trace_do_s(x, st)
           [] m = "do_e" /\ IsTrace(st) -> Trace_do_e(x, st)
           [] m = "do_t" /\ IsTrace(st) -> Trace_do_t(x, st)
           [] m = "do_eff" /\ IsTrace(st) -> Trace_do_eff(x, st)
           [] m = "do_eff_es" /\ IsTrace(st) -> LoopIR_Do_do_eff_es(x, st)
           [] m = "do_eff_e" /\ IsTrace(st) -> LoopIR_Do_do_eff_e(x, st)
           [] m = "do_s" /\ IsFindConfigs(st) -> FindConfigs_do_s(x, st)
           [] m = "do_e" /\ IsFindConfigs(st) -> FindConfigs_do_e(x, st)
           [] m \in {"do_t", "do_eff"} /\ IsFindConfigs(st) -> st
           [] m = "do_eff_es" /\ IsFindConfigs(st) -> LoopIR_Do_do_eff_es(x, st)
           [] m = "do_eff_e" /\ IsFindConfigs(st) -> LoopIR_Do_do_eff_e(x, st)
           [] m = "do_s" -> FreeVars_do_s(x, st)
           [] m = "do_e" -> FreeVars_do_e(x, st)
           [] m = "do_w_access" -> LoopIR_Do_do_w_access(x, st)
           [] m = "do_t" -> FreeVars_do_t(x, st)
           [] m = "do_eff_es" -> FreeVars_do_eff_es(x, st)
           [] m = "do_eff_e" -> FreeVars_do_eff_e(x, st)
           [] m = "do_eff" -> LoopIR_Do_do_eff(x, st)
           \* super().do_*(x) of FreeVars and of LoopIR_FindConfigs
           [] m = "LoopIR_Do.do_s" -> LoopIR_Do_do_s(x, st)
           [] m = "LoopIR_Do.do_e" -> LoopIR_Do_do_e(x, st)
           [] m = "LoopIR_Do.do_t" -> LoopIR_Do_do_t(x, st)
           [] m = "LoopIR_Do.do_eff" -> LoopIR_Do_do_eff(x, st)
           [] m = "LoopIR_Do.do_eff_es" -> LoopIR_Do_do_eff_es(x, st)
           [] m = "LoopIR_Do.do_eff_e" -> LoopIR_Do_do_eff_e(x, st)

RECURSIVE FreeVars_nodes(_, _)
FreeVars_nodes(node, st) ==
    IF node = <<>> THEN st
    ELSE LET n == Head(node)
             st1 == CASE n.k \in StmtKinds -> do_s(n, st)
                      [] n.k \in ExprKinds -> do_e(n, st)
                      [] OTHER -> do_eff(n, st)
         IN FreeVars_nodes(Tail(node), st1)

FreeVars(node) == FreeVars_nodes(node, [env |-> ChainMap, fv |-> {}]).fv

\* ------------------------------------------------------------------------
\* LoopIR_FindConfigs, find_all_configs and the context struct.  The state
\* of the visitor is [env, configs]; env is not used by this class.
\* ------------------------------------------------------------------------
\* a config object: the instances are told apart by id
Config(id, name, is_allow_rw) ==
    [k |-> "Config", id |-> id, name |-> name, is_allow_rw |-> is_allow_rw,
     fields |-> ("n" :> TScalar("size"))]

\* LoopIR_Do.__init__(proc)
LoopIR_Do_init(p, st) ==
    do_stmts(p.body,
             do_list("do_e", p.preds,
                     do_list("do_t", [i \in DOMAIN p.args |-> p.args[i].type], st)))

\* LoopIR_FindConfigs(p).result()
LoopIR_FindConfigs(p) == LoopIR_Do_init(p, [env |-> ChainMap, configs |-> {}]).configs

RECURSIVE find_all_configs_from(_, _)
find_all_configs_from(proc_list, configs) ==
    IF proc_list = <<>> THEN configs
    ELSE find_all_configs_from(Tail(proc_list),
                               configs \cup LoopIR_FindConfigs(Head(proc_list)))

\* the configs of the list that find_all_configs returns, as a set
find_all_configs(proc_list) == find_all_configs_from(proc_list, {})

\* `if name in seen: raise TypeError` fires for some c of configs
HasDupConfig(configs) ==
    \E c \in configs : \E d \in configs : c # d /\ c.name = d.name

\* _compile_context_struct(configs, lib_name): the pair <<ctxt_name,
\* ctxt_def>>; ctxt_def lists the configs by name, the ones that are not
\* read or written as a comment
_compile_context_struct(configs, lib_name) ==
    IF configs = {} THEN <<"void", <<>>>>
    ELSE <<lib_name \o "_Context",
           {[name |-> c.name, materialized |-> c.is_allow_rw] : c \in configs}>>

\* three config objects: cfgA and cfgB are two configs of the same name
cfgA == Config(1, "cfg", TRUE)

cfgB == Config(2, "cfg", TRUE)

cfgC == Config(3, "other", FALSE)

\* the statements other than Call of the first two procedures: what they
\* do with the configs
ConfigBodies ==
    {<<<<>>, <<>>>>,
     <<<<WriteConfig(cfgA, "n", Const(1, TScalar("size")), None)>>,
       <<Seq_(1, ReadConfig(cfgB, "n", TScalar("size")), <<Pass(None)>>, None)>>>>,
     <<<<WriteConfig(cfgA, "n", Const(1, TScalar("size")), None)>>,
       <<Alloc(2, Tensor(<<ReadConfig(cfgB, "n", TScalar("size"))>>, FALSE,
                         TScalar("f32")), None)>>>>,
     <<<<WriteConfig(cfgA, "n", ReadConfig(cfgC, "n", TScalar("size")), None)>>,
       <<WriteConfig(cfgA, "n", Const(2, TScalar("size")), None)>>>>}

\* the procedure p as LoopIR_FindConfigs sees it
ProcIR(p) == proc_named(p, <<>>, <<>>, inp.body[p], None, None)

CompileInit ==
    /\ \E E \in SUBSET (CProcs \X CProcs) :
          calls = [p \in Procs |-> {b \in Procs : <<p, b>> \in E}]
    /\ \E I \in {{}} \cup {{p} : p \in CProcs} : instr = I
    /\ seeds \in {<<a>> : a \in CProcs} \cup {<<a, b>> : a, b \in CProcs}
    /\ all_procs = <<>>
    /\ seen = {}
    /\ stack = <<>>
    /\ si = 1
    /\ gpc = "walk"
    /\ errproc = 0
    /\ result = <<>>
    /\ \E nm \in [CProcs -> CProcs] :
          pname = [p \in Procs |-> IF p \in CProcs THEN nm[p] ELSE p]
    /\ \E N \in SUBSET (CProcs \X Helpers) :
          /\ Cardinality(N) <= MaxNeeds
          /\ needs = [p \in Procs |-> {h \in Helpers : <<p, h>> \in N}]
    /\ cpc = "start"
    /\ cout = NoOut
    /\ run = 1
    /\ prev = NoOut
    /\ \E b \in ConfigBodies :
          inp = [k |-> "bodies",
                 body |-> [p \in Procs |-> IF p \in DOMAIN b THEN b[p] ELSE <<>>]]
    /\ out = [k |-> "none"]
    /\ fpc = "idle"

\* find_all_subprocs raised: the ValueError leaves compile_to_strings
CompileCycleError ==
    /\ cpc = "start"
    /\ gpc = "error"
    /\ cout' = [k |-> "raise", exc |-> "ValueError", header |-> <<>>, body |-> <<>>]
    /\ cpc' = "raised"
    /\ UNCHANGED <<gvars, pname, needs, run, prev, fvars>>

\* compile_to_strings from the sort of the closure to its return
CompileToStrings ==
    /\ cpc = "start"
    /\ gpc = "done"
    /\ LET proc_list == sorted_by_name(result)
           compiled == {p \in Range(proc_list) : p \notin instr}
           needed_helpers == UNION {needs[p] : p \in compiled}
           configs == find_all_configs([i \in DOMAIN proc_list |-> ProcIR(proc_list[i])])
       IN IF HasDupConfig(configs) \/ HasDupName(proc_list)
          THEN /\ cout' = [k |-> "raise", exc |-> "TypeError",
                           header |-> <<>>, body |-> <<>>]
               /\ cpc' = "raised"
          ELSE \E helper_code \in helper_orders(needed_helpers) :
               /\ cout' = [k |-> "ok", exc |-> "",
                           header |-> <<MapSelect(proc_list, IsPublic, proc_decl),
                                        _compile_context_struct(configs, "lib")>>,
                           body |-> <<helper_code,
                                      MapSelect(proc_list, IsPrivate, proc_decl),
                                      MapSelect(proc_list, IsAny, proc_def)>>]
               /\ cpc' = "returned"
    /\ UNCHANGED <<gvars, pname, needs, run, prev, fvars>>

\* the same library name and seed list are compiled a second time
CompileAgain ==
    /\ cpc \in {"returned", "raised"}
    /\ run = 1
    /\ run' = 2
    /\ prev' = cout
    /\ cout' = NoOut
    /\ cpc' = "start"
    /\ all_procs' = <<>>
    /\ seen' = {}
    /\ stack' = <<>>
    /\ si' = 1
    /\ gpc' = "walk"
    /\ errproc' = 0
    /\ result' = <<>>
    /\ UNCHANGED <<calls, instr, seeds, pname, needs, fvars>>

CompileNext ==
    \/ GraphNext
    \/ CompileCycleError
    \/ CompileToStrings
    \/ CompileAgain

SpecCompile == CompileInit /\ [][CompileNext]_vars

\* C4: compile_to_strings is deterministic: two compilations of the same
\* library name and seed list that both return give the same header text and
\* the same source text, whatever order the internal sets are iterated in.
C4_Deterministic ==
    (run = 2 /\ cpc = "returned" /\ prev.k = "ok") => cout = prev

\* ------------------------------------------------------------------------
\* Part X: the expression emitter of the Compiler object.  A C text is the
\* sequence of its pieces, each a C token or a blank, in the order they are
\* written (Text joins them into the string).  The Compiler object cs holds
\* env, envtyp, mems, _scalar_refs, non_const, _needed_helpers, the table
\* str of the printable names of the symbols, and the exception that ended
\* the compilation, if any.
\* ------------------------------------------------------------------------
\* a memory class: its name() and its can_read()
DRAM == [k |-> "Memory", name |-> "DRAM", can_read |-> TRUE]

\* A printable name or C identifier is a record: the string stem when suf is
\* NoSuffix, stem_<suf> for a number suf, and stem_ when suf is NoDigits.
\* The record is what re.match(r"^(.*)_([0-9]*)$", s) finds in the string:
\* m[1] is stem and m[2] the digits; with NoSuffix there is no match.
NoSuffix == -1

NoDigits == -2

Name(stem) == [stem |-> stem, suf |-> NoSuffix]

NameStr(n) ==
    CASE n.suf = NoSuffix -> n.stem
      [] n.suf = NoDigits -> n.stem \o "_"
      [] OTHER -> n.stem \o "_" \o ToString(n.suf)

\* self.env[name] as text
env_str(cs, name) == NameStr(EnvGet(cs.env, name))

op_prec(op) ==
    CASE op = "or" -> 10
      [] op = "and" -> 20
      [] op = "==" -> 30
      [] op \in {"<", ">", "<=", ">="} -> 40
      [] op \in {"+", "-"} -> 50
      [] op \in {"*", "/", "%"} -> 60
      [] op = "~" -> 70

is_real_scalar(t) == t.k = "T" /\ t.t \in {"R", "f32", "f64", "i8", "i32"}

is_tensor_or_window(t) == t.k \in {"Tensor", "WindowType"}

is_win(t) == (t.k = "Tensor" /\ t.is_window) \/ t.k = "WindowType"

is_numeric(t) == is_real_scalar(t) \/ is_tensor_or_window(t)

shape(t) ==
    CASE t.k = "WindowType" -> t.as_tensor.hi
      [] t.k = "Tensor" -> t.hi
      [] OTHER -> <<>>

\* the string that the pieces of a text make
RECURSIVE Text(_)
Text(pieces) == IF pieces = <<>> THEN "" ELSE Head(pieces) \o Text(Tail(pieces))

ctype(t) ==
    CASE t.t = "f32" -> "float"
      [] t.t = "f64" -> "double"
      [] t.t = "i8" -> "int8_t"
      [] t.t = "i32" -> "int32_t"
      [] t.t = "bool" -> "bool"
      [] t.t \in {"int", "index", "size", "stride"} -> "int_fast32_t"

basetype(t) ==
    CASE t.k = "WindowType" -> t.as_tensor.type
      [] t.k = "Tensor" -> t.type
      [] OTHER -> t

rename_loop_skipped(names, s) == [r |-> s, err |-> ""]

\* the while loop of new_varname: the next string after s that is not a key
\* of names; int(m[2]) raises ValueError when the string ends in "_"
RECURSIVE rename_loop(_, _)
rename_loop(names, s) ==
    CASE ~EnvHas(names, s) -> [r |-> s, err |-> ""]
      [] s.suf = NoSuffix -> rename_loop(names, [s EXCEPT !.suf = 1])
      [] s.suf = NoDigits -> [r |-> s, err |-> "ValueError"]
      [] OTHER -> rename_loop(names, [s EXCEPT !.suf = @ + 1])

bind_varname_in_DRAM(cs, symbol, strnm, typ, mem) ==
    Ret(strnm,
        [cs EXCEPT !.names = EnvSet(@, strnm, strnm),
                   !.env = EnvSet(@, symbol, strnm),
                   !.envtyp = (symbol :> typ) @@ @,
                   !.mems = (symbol :> DRAM) @@ @])

\* the assignments that end new_varname
bind_varname(cs, symbol, strnm, typ, mem) ==
    Ret(strnm,
        [cs EXCEPT !.names = EnvSet(@, strnm, strnm),
                   !.env = EnvSet(@, symbol, strnm),
                   !.envtyp = (symbol :> typ) @@ @,
                   !.mems = (symbol :> (IF IsNone(mem) THEN DRAM ELSE mem)) @@ @])

new_varname(cs, symbol, typ, mem) ==
    IF cs.err # "" THEN Ret(cs.str[symbol], cs)
    ELSE IF ~EnvHas(cs.names, cs.str[symbol])
    THEN bind_varname(cs, symbol, cs.str[symbol], typ, mem)
    ELSE With([r |-> rename_loop(cs.names, EnvGet(cs.names, cs.str[symbol])),
               st |-> cs],
              LAMBDA s, st :
                 IF s.err # "" THEN Ret(s.r, Raise(st, s.err))
                 ELSE bind_varname([st EXCEPT !.names = EnvSet(@, st.str[symbol], s.r)],
                                   symbol, s.r, typ, mem))

\* Compiler.push(only): only is "None", "env" or "tab"
Compiler_push(cs, only) ==
    CASE cs.err # "" -> cs
      [] only = "None" ->
           [cs EXCEPT !.env = new_child(@), !.names = new_child(@), !.tab = @ + 1]
      [] only = "env" -> [cs EXCEPT !.env = new_child(@), !.names = new_child(@)]
      [] only = "tab" -> [cs EXCEPT !.tab = @ + 1]
      [] OTHER -> Raise(cs, "AssertionError")

\* Compiler.pop(): self._tab[:-2] of an empty string is the empty string;
\* nothing runs after a raise, so the scopes stay as the raise found them
Compiler_pop(cs) ==
    IF cs.err # "" THEN cs
    ELSE [cs EXCEPT !.env = parents(@), !.names = parents(@),
                    !.tab = IF @ > 0 THEN @ - 1 ELSE 0]

\* self._tab, two blanks for each level
RECURSIVE tab_str(_)
tab_str(n) == IF n = 0 THEN "" ELSE "  " \o tab_str(n - 1)

add_line(cs, line) ==
    IF cs.err # "" \/ line = <<>> THEN cs
    ELSE [cs EXCEPT !.lines = Append(@, tab_str(cs.tab) \o Text(line))]

\* window_struct(base_type, n_dims, is_const).name
window_struct(base_type, n_dims, is_const) ==
    "exo_win_" \o ToString(n_dims) \o base_type.t \o (IF is_const THEN "c" ELSE "")

\* get_window_type(typ, is_const): typ a window type or a formal argument
\* of window type; is_const is None, which leaves the choice to
\* self.non_const, or a Boolean val in a record
get_window_type(cs, typ, is_const) ==
    IF cs.err # "" THEN Ret("", cs)
    ELSE IF typ.k = "WindowType"
    THEN With(Ret(window_struct(basetype(typ.as_tensor), Len(shape(typ.as_tensor)),
                                IF IsNone(is_const) THEN typ.src_buf \notin cs.non_const
                                ELSE is_const.val), cs),
              LAMBDA win, st : Ret(win, [st EXCEPT !.window_defns = @ \cup {win}]))
    ELSE IF typ.k = "fnarg" /\ is_win(typ.type)
    THEN With(Ret(window_struct(basetype(typ.type), Len(shape(typ.type)),
                                IF IsNone(is_const) THEN typ.name \notin cs.non_const
                                ELSE is_const.val), cs),
              LAMBDA win, st : Ret(win, [st EXCEPT !.window_defns = @ \cup {win}]))
    ELSE Ret("", Raise(cs, "AssertionError"))

\* sep.join(strs), strs a list of texts
RECURSIVE join(_, _)
join(sep, strs) ==
    CASE strs = <<>> -> <<>>
      [] Len(strs) = 1 -> strs[1]
      [] OTHER -> strs[1] \o sep \o join(sep, Tail(strs))

\* str(e.val) of an integer constant
str(val) == IF val < 0 THEN <<"-", ToString(-val)>> ELSE <<ToString(val)>>

_call_static_helper(st, helper, args) ==
    Ret(<<helper, "(">> \o join(<<",", " ">>, args) \o <<")">>,
        [st EXCEPT !.needed_helpers = @ \cup {helper}])

\* the loop of tensor_strides: szs from the last but one down to the first
RECURSIVE strides_loop(_, _, _)
strides_loop(szs, strides, s) ==
    IF szs = <<>> THEN reversed(strides)
    ELSE strides_loop(SubSeq(szs, 1, Len(szs) - 1), Append(strides, s),
                      szs[Len(szs)] \o <<" ", "*", " ">> \o s)

RECURSIVE comp_e(_, _, _)
RECURSIVE comp_list(_, _, _, _)
RECURSIVE comp_fnarg(_, _, _, _, _)
RECURSIVE comp_fnargs(_, _, _, _, _)

\* [self.comp_e(s, prec=prec) for s in shape]
shape_strs(cs, shp, prec) == comp_list(cs, shp, prec, <<>>)

tensor_strides_extents_as_written(cs, shp, prec) ==
    With(shape_strs(cs, shp, 0),
         LAMBDA szs, st :
            Ret(strides_loop(SubSeq(szs, 1, Len(szs) - 1), <<<<"1">>>>,
                             szs[Len(szs)]), st))

tensor_strides(cs, shp, prec) ==
    With(shape_strs(cs, shp, IF prec > 61 THEN prec ELSE 61),
         LAMBDA szs, st :
            Ret(strides_loop(SubSeq(szs, 1, Len(szs) - 1), <<<<"1">>>>,
                             szs[Len(szs)]), st))

\* works for any tensor or window type
get_strides(cs, name, typ, prec) ==
    IF is_win(typ)
    THEN Ret([i \in 1..Len(shape(typ)) |->
                <<name, ".", "strides", "[", ToString(i - 1), "]">>], cs)
    ELSE tensor_strides(cs, shape(typ), prec)

\* acc = " + ".join([f"({i}) * ({s})" for i, s in zip(idx, strides)])
get_idx_offset(cs, name, typ, idx) ==
    With(get_strides(cs, name, typ, 61),
         LAMBDA strides, st :
            IF Len(strides) # Len(idx) THEN Ret(<<>>, Raise(st, "AssertionError"))
            ELSE Ret(join(<<" ", "+", " ">>,
                          [i \in DOMAIN idx |->
                             <<"(">> \o idx[i] \o <<")", " ", "*", " ", "(">>
                             \o strides[i] \o <<")">>]),
                     st))

access_str(cs, nm, idx_list) ==
    With(comp_list(cs, idx_list, 0, <<>>),
         LAMBDA idxs, s1 :
            With(get_idx_offset(s1, env_str(s1, nm), s1.envtyp[nm], idxs),
                 LAMBDA idx_expr, s2 :
                    Ret(<<env_str(s2, nm)>>
                        \o (IF is_win(s2.envtyp[nm]) THEN <<".", "data">> ELSE <<>>)
                        \o <<"[">> \o idx_expr \o <<"]">>, s2)))

\* the window hook of a memory class: the element of base at the offset
\* that idxs and strides give
Memory_window(mem, basetyp, base, idxs, strides) ==
    <<base>> \o (IF is_win(basetyp) THEN <<".", "data">> ELSE <<>>) \o <<"[">>
    \o join(<<" ", "+", " ">>,
            [i \in DOMAIN idxs |->
               <<"(">> \o idxs[i] \o <<")", " ", "*", " ", "(">> \o strides[i] \o <<")">>])
    \o <<"]">>

w_lo(w) == IF w.k = "Interval" THEN w.lo ELSE w.pt

\* the strides of the dimensions that e takes by an Interval
RECURSIVE interval_strides(_, _)
interval_strides(all_strides, idx) ==
    IF idx = <<>> \/ all_strides = <<>> THEN <<>>
    ELSE (IF Head(idx).k = "Interval" THEN <<Head(all_strides)>> ELSE <<>>)
         \o interval_strides(Tail(all_strides), Tail(idx))

\* returns the pair <<dataptr, strides>>
window_struct_fields(cs, e) ==
    With(comp_list(cs, [i \in DOMAIN e.idx |-> w_lo(e.idx[i])], 0, <<>>),
         LAMBDA idxs, s1 :
            With(get_strides(s1, env_str(s1, e.name), s1.envtyp[e.name], 0),
                 LAMBDA all_strides, s2 :
                    IF s2.err # "" THEN Ret(<<<<>>, <<>>>>, s2)
                    ELSE IF ~(0 < Len(all_strides) /\ Len(all_strides) = Len(e.idx))
                    THEN Ret(<<<<>>, <<>>>>, Raise(s2, "AssertionError"))
                    ELSE Ret(<<Memory_window(s2.mems[e.name], s2.envtyp[e.name],
                                             env_str(s2, e.name), idxs, all_strides),
                               join(<<",", " ">>, interval_strides(all_strides, e.idx))>>,
                             s2)))

\* f"(struct {win_struct}){{ &{data}, {{ {strides} }} }}"
window_str(win_struct, fields) ==
    <<"(", "struct", " ", win_struct, ")", "{", " ", "&">> \o fields[1]
    \o <<",", " ", "{", " ">> \o fields[2] \o <<" ", "}", " ", "}">>

\* the compile hook of a built-in function: a call of it
BuiltIn_compile(f, args) == <<f, "(">> \o join(<<",", " ">>, args) \o <<")">>

binop_str_c_division(e, prec, lhs, rhs, st) ==
    Ret(IF op_prec(e.op) < prec
        THEN <<"(">> \o lhs \o <<" ", e.op, " ">> \o rhs \o <<")">>
        ELSE lhs \o <<" ", e.op, " ">> \o rhs, st)

\* the text of a BinOp from the texts of its operands
binop_str(e, prec, lhs, rhs, st) ==
    CASE e.op = "/" /\ ~is_numeric(e.type) /\ e.lhs.type = TScalar("size") ->
           Ret(<<"(", "(">> \o lhs \o <<")", " ", "/", " ", "(">> \o rhs
               \o <<")", ")">>, st)
      [] e.op = "/" /\ ~is_numeric(e.type) ->
           _call_static_helper(st, "exo_floor_div", <<lhs, rhs>>)
      [] OTHER ->
           Ret(IF op_prec(e.op) < prec
               THEN <<"(">> \o lhs
                    \o <<" ", CASE e.op = "and" -> "&&" [] e.op = "or" -> "||"
                                [] OTHER -> e.op, " ">>
                    \o rhs \o <<")">>
               ELSE lhs
                    \o <<" ", CASE e.op = "and" -> "&&" [] e.op = "or" -> "||"
                                [] OTHER -> e.op, " ">>
                    \o rhs, st)

comp_e(cs, e, prec) ==
    CASE cs.err # "" -> Ret(<<>>, cs)
      [] e.k = "Read" ->
           IF is_indexable(cs.envtyp[e.name])
              \/ cs.envtyp[e.name] \in {TScalar("bool"), TScalar("stride")}
           THEN Ret(<<env_str(cs, e.name)>>, cs)
           ELSE IF ~cs.mems[e.name].can_read
           THEN Ret(<<>>, [Raise(cs, "MemGenError") EXCEPT
                             !.msg = <<"cannot read from buffer '", NameStr(cs.str[e.name]),
                                       "' in memory '", cs.mems[e.name].name, "'">>])
           ELSE IF e.name \in cs.scalar_refs THEN Ret(<<"*", env_str(cs, e.name)>>, cs)
           ELSE IF ~is_tensor_or_window(cs.envtyp[e.name])
           THEN Ret(<<env_str(cs, e.name)>>, cs)
           ELSE access_str(cs, e.name, e.idx)
      [] e.k = "WindowExpr" ->
           With(get_window_type(cs, e.type, None),
                LAMBDA win_struct, s1 :
                   With(window_struct_fields(s1, e),
                        LAMBDA fields, s2 : Ret(window_str(win_struct, fields), s2)))
      [] e.k = "BuiltIn" ->
           With(comp_fnargs(cs, e.args, e, 1, <<>>),
                LAMBDA args, st : Ret(BuiltIn_compile(e.f, args), st))
      [] e.k = "Const" ->
           IF e.type = TScalar("bool")
           THEN Ret(<<IF e.val # 0 THEN "true" ELSE "false">>, cs)
           ELSE Ret(str(e.val), cs)
      [] e.k = "BinOp" ->
           With(comp_e(cs, e.lhs,
                       IF e.op = "/" /\ ~is_numeric(e.type) THEN 0
                       ELSE op_prec(e.op)),
                LAMBDA lhs, s1 :
                   With(comp_e(s1, e.rhs,
                               IF e.op = "/" /\ ~is_numeric(e.type) THEN 1
                               ELSE op_prec(e.op) + 1),
                        LAMBDA rhs, s2 : binop_str(e, prec, lhs, rhs, s2)))
      [] e.k = "USub" ->
           With(comp_e(cs, e.arg, op_prec("~")),
                LAMBDA arg, st : Ret(<<"-">> \o arg, st))
      [] e.k = "StrideExpr" ->
           With(get_strides(cs, NameStr(cs.str[e.name]), cs.envtyp[e.name], 100),
                LAMBDA strides, st : Ret(strides[e.dim + 1], st))
      [] e.k = "ReadConfig" ->
           IF ~e.config.is_allow_rw
           THEN Ret(<<>>, [Raise(cs, "ConfigError") EXCEPT
                             !.msg = <<"cannot read from config '", e.config.name, "'">>])
           ELSE Ret(<<"ctxt", "->", e.config.name, ".", e.field>>, cs)

comp_list(cs, es, prec, acc) ==
    IF es = <<>> THEN Ret(acc, cs)
    ELSE With(comp_e(cs, Head(es), prec),
              LAMBDA x, st : comp_list(st, Tail(es), prec, Append(acc, x)))

\* the buffers that the effect of a procedure writes or reduces
written_buffers(eff) ==
    {eff.writes[j].buffer : j \in DOMAIN eff.writes}
    \cup {eff.reduces[j].buffer : j \in DOMAIN eff.reduces}

\* the argument number i (from 1) of a call of fn: fn is the procedure
\* called or the BuiltIn expression
\* comp_fnarg without the branch for the names in _scalar_refs
comp_fnarg_address_of_every_scalar(cs, e, fn, i, prec) ==
    CASE cs.err # "" -> Ret(<<>>, cs)
      [] e.k = "Read" ->
           IF e.idx # <<>> THEN Ret(<<>>, Raise(cs, "AssertionError"))
           ELSE IF is_indexable(cs.envtyp[e.name])
                   \/ cs.envtyp[e.name] = TScalar("bool")
                   \/ cs.envtyp[e.name] = TScalar("stride")
                   \/ is_tensor_or_window(cs.envtyp[e.name])
           THEN Ret(<<env_str(cs, e.name)>>, cs)
           ELSE IF ~is_real_scalar(cs.envtyp[e.name])
           THEN Ret(<<>>, Raise(cs, "AssertionError"))
           ELSE Ret(<<"&", env_str(cs, e.name)>>, cs)
      [] e.k = "WindowExpr" ->
           IF fn.k # "proc" THEN Ret(<<>>, Raise(cs, "NotImplementedError"))
           ELSE With(get_window_type(cs, e.type,
                                     [k |-> "bool",
                                      val |-> fn.args[i].name
                                                 \notin written_buffers(fn.eff)]),
                     LAMBDA win_struct, s1 :
                        With(window_struct_fields(s1, e),
                             LAMBDA fields, s2 :
                                Ret(window_str(win_struct, fields), s2)))
      [] OTHER -> comp_e(cs, e, prec)

comp_fnarg(cs, e, fn, i, prec) ==
    CASE cs.err # "" -> Ret(<<>>, cs)
      [] e.k = "Read" ->
           IF e.idx # <<>> THEN Ret(<<>>, Raise(cs, "AssertionError"))
           ELSE IF is_indexable(cs.envtyp[e.name])
                   \/ cs.envtyp[e.name] = TScalar("bool")
                   \/ cs.envtyp[e.name] = TScalar("stride")
                   \/ e.name \in cs.scalar_refs
                   \/ is_tensor_or_window(cs.envtyp[e.name])
           THEN Ret(<<env_str(cs, e.name)>>, cs)
           ELSE IF ~is_real_scalar(cs.envtyp[e.name])
           THEN Ret(<<>>, Raise(cs, "AssertionError"))
           ELSE Ret(<<"&", env_str(cs, e.name)>>, cs)
      [] e.k = "WindowExpr" ->
           IF fn.k # "proc" THEN Ret(<<>>, Raise(cs, "NotImplementedError"))
           ELSE With(get_window_type(cs, e.type,
                                     [k |-> "bool",
                                      val |-> fn.args[i].name
                                                 \notin written_buffers(fn.eff)]),
                     LAMBDA win_struct, s1 :
                        With(window_struct_fields(s1, e),
                             LAMBDA fields, s2 :
                                Ret(window_str(win_struct, fields), s2)))
      [] OTHER -> comp_e(cs, e, prec)

\* [self.comp_fnarg(e, fn, i) for i, e in enumerate(args)]
comp_fnargs(cs, args, fn, i, acc) ==
    IF i > Len(args) THEN Ret(acc, cs)
    ELSE With(comp_fnarg(cs, args[i], fn, i, 0),
              LAMBDA x, st : comp_fnargs(st, args, fn, i + 1, Append(acc, x)))

\* ------------------------------------------------------------------------
\* Part Y: the statement emitter and the constructor of Compiler
\* ------------------------------------------------------------------------
\* the write, reduce, alloc and free hooks of a memory class, as DRAM has them
Memory_write(mem, lhs, rhs) == lhs \o <<" ", "=", " ">> \o rhs \o <<";">>

Memory_reduce(mem, lhs, rhs) == lhs \o <<" ", "+=", " ">> \o rhs \o <<";">>

Memory_alloc(mem, name, ctyp, shape_s) ==
    IF shape_s = <<>> THEN <<ctyp, " ", name, ";">>
    ELSE <<ctyp, " ", "*", name, " ", "=", " ", "malloc", "(">>
         \o join(<<" ", "*", " ">>, shape_s)
         \o <<" ", "*", " ", "sizeof", "(", "*", name, ")", ")", ";">>

Memory_free(mem, name, ctyp, shape_s) ==
    IF shape_s = <<>> THEN <<>> ELSE <<"free", "(", name, ")", ";">>

\* the cast of an assigned value between two scalar types
cast_rhs(cs, ltyp, rtyp, rhs) ==
    IF ltyp = TScalar("i8") /\ rtyp = TScalar("i32")
    THEN _call_static_helper(cs, "exo_clamp_32to8", <<rhs>>)
    ELSE Ret(<<"(", ctype(ltyp), ")", "(">> \o rhs \o <<")">>, cs)

\* the left-hand side of an Assign or Reduce
lhs_str(cs, s) ==
    IF s.name \in cs.scalar_refs THEN Ret(<<"*", env_str(cs, s.name)>>, cs)
    ELSE IF is_real_scalar(cs.envtyp[s.name]) THEN Ret(<<env_str(cs, s.name)>>, cs)
    ELSE access_str(cs, s.name, s.idx)

\* the dictionary d that fills the template of an instruction
RECURSIVE instr_dict(_, _, _, _, _)
instr_dict(cs, s, args, i, d) ==
    IF i > Len(args) \/ cs.err # "" THEN Ret(d, cs)
    ELSE IF is_win(s.args[i].type)
    THEN IF s.args[i].k # "WindowExpr" THEN Ret(d, Raise(cs, "AssertionError"))
         ELSE With(window_struct_fields(cs, s.args[i]),
                   LAMBDA fields, st :
                      instr_dict(st, s, args, i + 1,
                                 (NameStr(st.str[s.f.args[i].name])
                                     :> (<<"(">> \o args[i] \o <<")">>)
                                  @@ (NameStr(st.str[s.f.args[i].name]) \o "_data")
                                     :> fields[1]
                                  @@ (NameStr(st.str[s.f.args[i].name]) \o "_int")
                                     :> <<env_str(st, s.args[i].name)>>) @@ d))
    ELSE instr_dict(cs, s, args, i + 1,
                    (NameStr(cs.str[s.f.args[i].name]) :> (<<"(">> \o args[i] \o <<")">>)
                     @@ (NameStr(cs.str[s.f.args[i].name]) \o "_data")
                        :> (<<"(">> \o args[i] \o <<")">>)) @@ d)

\* instr.format(**d): the template is a list of literal pieces and of
\* replacement fields [field |-> key]
RECURSIVE str_format(_, _)
str_format(template, d) ==
    IF template = <<>> THEN <<>>
    ELSE (IF Head(template) \in DOMAIN d THEN d[Head(template)] ELSE <<Head(template)>>)
         \o str_format(Tail(template), d)

RECURSIVE comp_s(_, _)
RECURSIVE comp_stmts(_, _)

comp_s(cs, s) ==
    CASE cs.err # "" -> cs
      [] s.k = "Pass" -> add_line(cs, <<";", " ", "//", " ", "NO-OP">>)
      [] s.k \in {"Assign", "Reduce"} ->
           With(lhs_str(cs, s),
                LAMBDA lhs, s1 :
                   With(comp_e(s1, s.rhs, 0),
                        LAMBDA rhs0, s2 :
                           IF s2.err # "" THEN s2
                           ELSE IF basetype(s.type) = basetype(s.rhs.type)
                           THEN add_line(s2, IF s.k = "Assign"
                                             THEN Memory_write(s2.mems[s.name], lhs, rhs0)
                                             ELSE Memory_reduce(s2.mems[s.name], lhs, rhs0))
                           ELSE IF ~(is_real_scalar(s.type) /\ is_real_scalar(s.rhs.type))
                           THEN Raise(s2, "AssertionError")
                           ELSE With(cast_rhs(s2, basetype(s.type), basetype(s.rhs.type), rhs0),
                                     LAMBDA rhs, s3 :
                                        add_line(s3, IF s.k = "Assign"
                                                     THEN Memory_write(s3.mems[s.name], lhs, rhs)
                                                     ELSE Memory_reduce(s3.mems[s.name], lhs, rhs)))))
      [] s.k = "WriteConfig" ->
           IF ~s.config.is_allow_rw
           THEN [Raise(cs, "ConfigError") EXCEPT
                   !.msg = <<"cannot write to config '", s.config.name, "'">>]
           ELSE With(comp_e(cs, s.rhs, 0),
                     LAMBDA rhs0, s1 :
                        IF s1.err # "" THEN s1
                        ELSE IF s.config.fields[s.field] = s.rhs.type
                                \/ is_indexable(s.config.fields[s.field])
                        THEN add_line(s1, <<"ctxt", "->", s.config.name, ".", s.field,
                                            " ", "=", " ">> \o rhs0 \o <<";">>)
                        ELSE IF ~(is_real_scalar(s.config.fields[s.field])
                                  /\ is_real_scalar(s.rhs.type))
                        THEN Raise(s1, "AssertionError")
                        ELSE With(cast_rhs(s1, s.config.fields[s.field], s.rhs.type, rhs0),
                                  LAMBDA rhs, s2 :
                                     add_line(s2, <<"ctxt", "->", s.config.name, ".",
                                                    s.field, " ", "=", " ">>
                                                  \o rhs \o <<";">>)))
      [] s.k = "WindowStmt" ->
           With(get_window_type(cs, s.rhs.type, None),
                LAMBDA win_struct, s1 :
                   With(comp_e(s1, s.rhs, 0),
                        LAMBDA rhs, s2 :
                           IF s2.err # "" THEN s2
                           ELSE IF s.rhs.k # "WindowExpr" THEN Raise(s2, "AssertionError")
                           ELSE With(new_varname(s2, s.lhs, s.rhs.type, s2.mems[s.rhs.name]),
                                     LAMBDA lhs, s3 :
                                        add_line(s3, <<"struct", " ", win_struct, " ",
                                                       NameStr(lhs), " ", "=", " ">>
                                                     \o rhs \o <<";">>))))
      [] s.k = "If" ->
           With(comp_e(cs, s.cond, 0),
                LAMBDA cond, s1 :
                   With(Ret(0, Compiler_pop(comp_stmts(
                               Compiler_push(add_line(s1, <<"if", " ", "(">> \o cond
                                                          \o <<")", " ", "{">>), "None"),
                               s.body))),
                        LAMBDA x, s2 :
                           add_line(IF Len(s.orelse) > 0
                                    THEN Compiler_pop(comp_stmts(
                                            Compiler_push(add_line(s2, <<"}", " ", "else",
                                                                         " ", "{">>), "None"),
                                            s.orelse))
                                    ELSE s2,
                                    <<"}">>)))
      [] s.k = "Seq" ->
           With(comp_e(cs, s.hi, 0),
                LAMBDA hi, s1 :
                   With(new_varname(Compiler_push(s1, "env"), s.iter, TScalar("index"), None),
                        LAMBDA itr, s2 :
                           add_line(Compiler_pop(comp_stmts(
                                       Compiler_push(
                                          add_line(s2, <<"for", " ", "(", "int", " ",
                                                         NameStr(itr), " ", "=", " ", "0",
                                                         ";", " ", NameStr(itr), " ", "<",
                                                         " ">> \o hi
                                                       \o <<";", " ", NameStr(itr), "++",
                                                            ")", " ", "{">>),
                                          "tab"),
                                       s.body)),
                                    <<"}">>)))
      [] s.k = "Alloc" ->
           With(new_varname(cs, s.name, s.type, s.mem),
                LAMBDA name, s1 :
                   IF s1.err # "" THEN s1
                   ELSE IF ~is_real_scalar(basetype(s.type))
                           \/ basetype(s.type) = TScalar("R")
                   THEN Raise(s1, "AssertionError")
                   ELSE With(shape_strs(s1, shape(s.type), 100),
                             LAMBDA shape_s, s2 :
                                add_line(s2, Memory_alloc(IF IsNone(s.mem) THEN DRAM
                                                          ELSE s.mem,
                                                          NameStr(name),
                                                          ctype(basetype(s.type)), shape_s))))
      [] s.k = "Free" ->
           IF ~is_real_scalar(basetype(s.type)) THEN Raise(cs, "AssertionError")
           ELSE With(shape_strs(cs, shape(s.type), 100),
                     LAMBDA shape_s, s1 :
                        add_line(s1, Memory_free(IF IsNone(s.mem) THEN DRAM ELSE s.mem,
                                                 env_str(s1, s.name),
                                                 ctype(basetype(s.type)), shape_s)))
      [] s.k = "Call" ->
           IF \E i \in DOMAIN s.args : i \in DOMAIN s.f.args
                                       /\ is_win(s.args[i].type) # is_win(s.f.args[i].type)
           THEN Raise(cs, "AssertionError")
           ELSE With(comp_fnargs(cs, s.args, s.f, 1, <<>>),
                     LAMBDA args, s1 :
                        IF s1.err # "" THEN s1
                        ELSE IF ~IsNone(s.f.instr)
                        THEN IF Len(s.f.args) # Len(args) THEN Raise(s1, "AssertionError")
                             ELSE With(instr_dict(s1, s, args, 1, EmptyDict),
                                       LAMBDA d, s2 :
                                          add_line(s2, str_format(s.f.instr.pieces, d)))
                        ELSE add_line(s1, <<s.f.name, "(">>
                                          \o join(<<",">>, <<<<"ctxt">>>> \o args)
                                          \o <<")", ";">>))
      [] OTHER -> Raise(cs, "AssertionError")

comp_stmts(cs, stmts) ==
    IF stmts = <<>> THEN cs ELSE comp_stmts(comp_s(cs, Head(stmts)), Tail(stmts))

\* str(a.type) in the comment of a signature
type_str(t) ==
    CASE t.k = "T" -> t.t
      [] t.k = "Tensor" -> IF t.is_window THEN "window" ELSE "tensor"
      [] OTHER -> "window"

\* the symbol of the reserved first argument: Sym("ctxt") is a new symbol
ctxt_sym == 0

\* the fields of a Compiler object before the arguments are looked at; strs
\* is the table of the printable names of the symbols of the procedure
Compiler_fields(p, strs) ==
    [env |-> <<EmptyDict>>, names |-> <<EmptyDict>>,
     str |-> (ctxt_sym :> Name("ctxt")) @@ strs,
     envtyp |-> EmptyDict, mems |-> EmptyDict, tab |-> 0, lines |-> <<>>,
     scalar_refs |-> {}, needed_helpers |-> {}, window_defns |-> {},
     non_const |-> written_buffers(p.eff),
     arg_strs |-> <<>>, typ_comments |-> <<>>, err |-> "", msg |-> <<>>]

\* the text of one formal argument that is not passed by value
numeric_arg_str_always_const(cs, a, name_arg) ==
    IF is_win(a.type)
    THEN With(get_window_type(cs, a, None),
              LAMBDA wintyp, st : Ret(<<"struct", " ", wintyp, " ", NameStr(name_arg)>>, st))
    ELSE Ret(<<"const", " ", ctype(basetype(a.type)), "*", " ", NameStr(name_arg)>>, cs)

numeric_arg_str(cs, a, name_arg) ==
    IF is_win(a.type)
    THEN With(get_window_type(cs, a, None),
              LAMBDA wintyp, st : Ret(<<"struct", " ", wintyp, " ", NameStr(name_arg)>>, st))
    ELSE Ret((IF a.name \notin cs.non_const THEN <<"const", " ">> ELSE <<>>)
             \o <<ctype(basetype(a.type)), "*", " ", NameStr(name_arg)>>, cs)

\* one turn of the loop over proc.args
comp_arg(cs, a) ==
    With(new_varname(cs, a.name, a.type, IF is_numeric(a.type) THEN a.mem ELSE None),
         LAMBDA name_arg, s1 :
            IF s1.err # "" THEN s1
            ELSE IF a.type \in {TScalar("size"), TScalar("index"), TScalar("bool"),
                                TScalar("stride")}
            THEN [s1 EXCEPT !.arg_strs = Append(@, <<ctype(a.type), " ", NameStr(name_arg)>>),
                            !.typ_comments = Append(@, NameStr(name_arg) \o " : "
                                                       \o type_str(a.type))]
            ELSE IF ~is_numeric(a.type) \/ basetype(a.type) = TScalar("R")
            THEN Raise(s1, "AssertionError")
            ELSE With(numeric_arg_str(
                         IF is_real_scalar(a.type)
                         THEN [s1 EXCEPT !.scalar_refs = @ \cup {a.name}] ELSE s1,
                         a, name_arg),
                      LAMBDA arg_str, s2 :
                         [s2 EXCEPT !.arg_strs = Append(@, arg_str),
                                    !.typ_comments =
                                        Append(@, NameStr(name_arg) \o " : "
                                                  \o type_str(a.type)
                                                  \o (IF IsNone(a.mem) THEN ""
                                                      ELSE " @" \o a.mem.name))]))

RECURSIVE comp_args(_, _)
comp_args(cs, args) ==
    IF args = <<>> THEN cs ELSE comp_args(comp_arg(cs, Head(args)), Tail(args))

\* the loop over proc.preds
RECURSIVE comp_preds(_, _)
comp_preds(cs, preds) ==
    IF preds = <<>> \/ cs.err # "" THEN cs
    ELSE IF Head(preds).k = "Const" THEN comp_preds(cs, Tail(preds))
    ELSE With(comp_e(cs, Head(preds), 0),
              LAMBDA pred, st :
                 comp_preds(add_line(st, <<"EXO_ASSUME", "(">> \o pred \o <<")", ";">>),
                            Tail(preds)))

\* f"{static_kwd}void {name}( {', '.join(arg_strs)} )"
signature(cs, p, ctxt_name, public) ==
    (IF public THEN "" ELSE "static ") \o "void " \o p.name \o "( "
    \o Text(join(<<",", " ">>, <<<<ctxt_name, " ", "*", "ctxt">>>> \o cs.arg_strs))
    \o " )"

\* Compiler(proc, ctxt_name, public=public): the object, with the
\* lines of proc_decl and of proc_def, or the exception in err
Compiler(p, ctxt_name, public, strs) ==
    With(Ret(0, comp_stmts(
                   comp_preds(
                      comp_args(
                         new_varname(Compiler_fields(p, strs), ctxt_sym, None, None).st,
                         p.args),
                      p.preds),
                   p.body)),
         LAMBDA x, cs :
            IF cs.err # "" THEN cs
            ELSE [cs EXCEPT
                    !.arg_strs = <<<<ctxt_name, " ", "*", "ctxt">>>> \o @]
                 @@ [proc_decl |->
                        <<"// " \o p.name \o "(">>
                        \o [i \in DOMAIN cs.typ_comments |->
                              "//     " \o cs.typ_comments[i]
                              \o (IF i < Len(cs.typ_comments) THEN "," ELSE "")]
                        \o <<"// )", signature(cs, p, ctxt_name, public) \o ";">>,
                     proc_def |->
                        <<"// " \o p.name \o "(">>
                        \o [i \in DOMAIN cs.typ_comments |->
                              "//     " \o cs.typ_comments[i]
                              \o (IF i < Len(cs.typ_comments) THEN "," ELSE "")]
                        \o <<"// )", signature(cs, p, ctxt_name, public) \o " {">>
                        \o cs.lines \o <<"}">>])

\* ------------------------------------------------------------------------
\* The call graph as the claims speak of it
\* ------------------------------------------------------------------------
\* a Call edge that the closure follows: it leaves a non-instruction procedure
Edge(a, b) == a \notin instr /\ b \in calls[a]

Succ(S) == {b \in Procs : \E a \in S : Edge(a, b)}

RECURSIVE Closure(_, _)
Closure(S, n) == IF n = 0 THEN S ELSE Closure(S \cup Succ(S), n - 1)

\* the procedures reachable from the seeds
Reach == Closure(Range(seeds), NumProcs)

\* p lies on a cycle of Call edges (a procedure calling itself included)
OnCycle(p) == p \in Closure(Succ({p}), NumProcs)

CycleReachable == \E p \in Reach : OnCycle(p)

\* C1: for an acyclic call graph, in the returned list every callee precedes
\* its caller, for every Call edge between two non-instruction procedures.
C1_CalleesPrecedeCallers ==
    (gpc = "done" /\ ~CycleReachable) =>
        \A a \in Range(result) : \A b \in Range(result) :
            (Edge(a, b) /\ b \notin instr) =>
                IndexOf(result, b) < IndexOf(result, a)

\* C2: whenever a cycle of Call edges among non-instruction procedures is
\* reachable from the seeds (a procedure that calls itself included),
\* find_all_subprocs returns no list and raises the error naming a procedure
\* on a cycle.
C2_CycleRaises ==
    /\ (gpc = "done" => ~CycleReachable)
    /\ (gpc = "error" => OnCycle(errproc))

\* C3: for an acyclic call graph find_all_subprocs raises no error and
\* returns exactly the procedures reachable from the seeds through Call
\* edges leaving non-instruction procedures, each exactly once.
C3_ClosureExactOnce ==
    ~CycleReachable =>
        /\ gpc # "error"
        /\ gpc = "done" =>
              /\ Range(result) = Reach
              /\ Len(result) = Cardinality(Reach)

\* a diamond whose second seed is a callee of the first, fully returned
C3_Witness ==
    /\ gpc = "done"
    /\ ~CycleReachable
    /\ Len(seeds) = 2
    /\ Edge(seeds[1], seeds[2])
    /\ \E c \in Procs \ Range(seeds) : Edge(seeds[1], c) /\ Edge(seeds[2], c)
    /\ Len(result) = 3


\* ------------------------------------------------------------------------
\* Part P: the passes as state machines.  inp holds the arguments, one
\* action per call, out what the call returned or raised.
\* ------------------------------------------------------------------------
NumSyms == 2

\* the symbols an input may mention; Sym.copy() numbers fresh ones after them
Syms == 1..NumSyms

\* the state a pass object starts in: one empty scope, nothing raised
St0 == [env |-> ChainMap, nxt |-> NumSyms + 1, err |-> ""]

\* --- _map_list on its own --------------------------------------------------
NumObjs == 2

MaxNodes == 2

\* the i-th node object of the input list
Obj(i) == [k |-> "obj", oid |-> i]

\* a node object built by fn
NewObj(j) == [k |-> "obj", oid |-> 0 - j]

\* what fn may return for node i: None, the node itself, a new node, a list
FnResults(i) ==
    {None, Obj(i), NewObj(1), List(<<>>), List(<<NewObj(1), NewObj(2)>>)}

MapListInit ==
    /\ GraphIdle
    /\ CompileIdle
    /\ \E n \in 0..MaxNodes : \E ids \in [1..n -> 1..NumObjs] :
       \E f \in [1..NumObjs -> UNION {FnResults(i) : i \in 1..NumObjs}] :
          /\ \A i \in 1..NumObjs : f[i] \in FnResults(i)
          /\ inp = [k |-> "map_list", nodes |-> [i \in 1..n |-> Obj(ids[i])],
                    fn |-> f]
    /\ out = [k |-> "none"]
    /\ fpc = "start"

\* LoopIR_Rewrite._map_list(fn, nodes)
MapListCall ==
    /\ fpc = "start"
    /\ inp.k = "map_list"
    /\ out' = [k |-> "ret",
               r |-> map_list([kind |-> "base", fn |-> inp.fn], "fn",
                              inp.nodes, St0).r]
    /\ fpc' = "done"
    /\ UNCHANGED <<gvars, cvars, inp>>

MapListNext == MapListCall

SpecMapList == MapListInit /\ [][MapListNext]_vars

\* what one node contributes to the returned list
Contribution(f, x) ==
    IF IsNone(f[x.oid]) THEN <<x>>
    ELSE IF IsList(f[x.oid]) THEN f[x.oid].items
    ELSE <<f[x.oid]>>

RECURSIVE Spliced(_, _)
Spliced(f, nodes) ==
    IF nodes = <<>> THEN <<>>
    ELSE Contribution(f, Head(nodes)) \o Spliced(f, Tail(nodes))

\* C6: _map_list(fn, nodes) returns None exactly when fn returned None for
\* every element; otherwise it returns the list that keeps, in order, the
\* original element where fn returned None, the returned node where fn
\* returned a node, and the spliced elements where fn returned a list.
C6_MapList ==
    fpc = "done" /\ inp.k = "map_list" =>
        /\ IsNone(out.r) <=>
              \A i \in 1..Len(inp.nodes) : IsNone(inp.fn[inp.nodes[i].oid])
        /\ ~IsNone(out.r) =>
              /\ IsList(out.r)
              /\ out.r.items = Spliced(inp.fn, inp.nodes)

\* a kept element, a spliced list and an element deleted by an empty list
C6_Witness ==
    /\ fpc = "done"
    /\ inp.k = "map_list"
    /\ Len(inp.nodes) = 2
    /\ IsNone(inp.fn[inp.nodes[1].oid])
    /\ inp.fn[inp.nodes[2].oid] = List(<<NewObj(1), NewObj(2)>>)
    /\ out.r = List(<<inp.nodes[1], NewObj(1), NewObj(2)>>)


\* --- the passes on a procedure --------------------------------------------
\* the object at a known place of the input: its identity is the place
At(node, i) == [node EXCEPT !.oid = i]

tR == TScalar("R")

tIdx == TScalar("index")

tBool == TScalar("bool")

\* a plain read of the symbol x
Rd(x) == Read(x, <<>>, tIdx)

\* the constant True and a predicate that is not a constant
ConstTrue == Const(1, tBool)

Cmp(x) == BinOp("<", Rd(x), Const(8, TScalar("int")), tBool)

\* a window on the buffer y
Win(y) ==
    WindowExpr(y, <<Interval(Const(0, TScalar("int")), Rd(y))>>,
               WindowType(Tensor(<<Rd(y)>>, FALSE, tR),
                          Tensor(<<Rd(y)>>, TRUE, tR), y,
                          <<Interval(Const(0, TScalar("int")), Rd(y))>>))

\* one statement of every variant of the grammar, over the symbol x
StmtVariants(x) ==
    {Assign(x, tR, <<>>, Rd(x), None),
     Reduce(x, tR, <<Rd(x)>>, Rd(x), None),
     WriteConfig(1, "f", Rd(x), None),
     Pass(None),
     If(Cmp(x), <<Pass(None)>>, <<>>, None),
     Seq_(x, Rd(x), <<Pass(None)>>, None),
     Alloc(x, Tensor(<<Const(8, TScalar("int"))>>, FALSE, tR), None),
     Free(x, tR, None),
     Call(1, <<Rd(x)>>, None),
     WindowStmt(x, Win(x), None)}

\* the identities of the first statement and of the two first predicates
S1 == NumSyms + 11

Q1 == NumSyms + 21

Q2 == NumSyms + 22

PredLists(x) ==
    {<<>>, <<At(ConstTrue, Q1)>>, <<At(Cmp(x), Q1)>>,
     <<At(ConstTrue, Q1), At(Cmp(x), Q2)>>,
     <<At(Cmp(x), Q1), At(ConstTrue, Q2)>>}

ProcInputs ==
    {proc(args, preds, <<At(s, S1)>>, None) :
        args \in {<<>>} \cup {<<fnarg(x, tR)>> : x \in Syms},
        preds \in UNION {PredLists(x) : x \in Syms},
        s \in UNION {StmtVariants(x) : x \in Syms}}

\* passes that override map_s and map_e on chosen nodes
CustomPasses ==
    {[kind |-> "custom", smap |-> sm, emap |-> em] :
        sm \in {EmptyDict, S1 :> <<>>, S1 :> <<update(Pass(None)), update(Pass(None))>>},
        em \in {EmptyDict} \cup
               {q :> e : q \in {Q1, Q2},
                         e \in {update(ConstTrue), update(Cmp(1))}}}

Passes == {[kind |-> "base"], [kind |-> "alpha"]} \cup CustomPasses

RewriteInit ==
    /\ GraphIdle
    /\ CompileIdle
    /\ \E p \in ProcInputs : \E ps \in Passes :
          inp = [k |-> "rewrite", p |-> p, ps |-> ps]
    /\ out = [k |-> "none"]
    /\ fpc = "start"

\* what the caller of Pass(p).result() gets: the node, or the exception
Outcome(r) ==
    IF r.st.err # "" THEN [k |-> "raise", exc |-> r.st.err]
    ELSE [k |-> "ok", node |-> r.r]

\* LoopIR_Rewrite(p).result()
RunRewrite ==
    /\ fpc = "start"
    /\ inp.k = "rewrite"
    /\ inp.ps.kind = "base"
    /\ out' = Outcome(apply_proc(inp.ps, inp.p, St0))
    /\ fpc' = "done"
    /\ UNCHANGED <<gvars, cvars, inp>>

\* Alpha_Rename(p).result()
RunAlphaProc ==
    /\ fpc = "start"
    /\ inp.k = "rewrite"
    /\ inp.ps.kind = "alpha"
    /\ out' = Outcome(apply_proc(inp.ps, inp.p, St0))
    /\ fpc' = "done"
    /\ UNCHANGED <<gvars, cvars, inp>>

\* a subclass overriding map_s and map_e: Sub(p).result()
RunCustom ==
    /\ fpc = "start"
    /\ inp.k = "rewrite"
    /\ inp.ps.kind = "custom"
    /\ out' = Outcome(apply_proc(inp.ps, inp.p, St0))
    /\ fpc' = "done"
    /\ UNCHANGED <<gvars, cvars, inp>>

RewriteNext == RunRewrite \/ RunAlphaProc \/ RunCustom

SpecRewrite == RewriteInit /\ [][RewriteNext]_vars

\* C5: the base LoopIR_Rewrite applied to any procedure, whatever statement
\* variants its body contains (Free included), ends without error and its
\* result() is the input procedure object itself.
C5_BaseIdentity ==
    (fpc = "done" /\ inp.k = "rewrite" /\ inp.ps.kind = "base") =>
        /\ out.k = "ok"
        /\ out.node = inp.p

HasTruePred(preds) ==
    \E i \in DOMAIN preds : preds[i].k = "Const" /\ preds[i].val # 0

\* C7 as stated: the procedure returned by result() of every pass holds no
\* constant-true predicate, also when the pass changes nothing.
C7_NoTruePredAlways ==
    (fpc = "done" /\ inp.k = "rewrite" /\ out.k = "ok") =>
        ~HasTruePred(out.node.preds)

\* C7: whenever the pass changes something in the procedure (map_proc
\* returns a new procedure), the procedure returned by result() holds no
\* constant-true predicate; when the pass changes nothing, result() is the
\* input procedure itself with its predicates as they were.
C7_NoTruePredWhenChanged ==
    (fpc = "done" /\ inp.k = "rewrite" /\ out.k = "ok") =>
        IF out.node.oid = 0
        THEN ~HasTruePred(out.node.preds)
        ELSE out.node = inp.p

\* a pass changed the body of a procedure that held a constant-true predicate
C7_Witness ==
    /\ fpc = "done"
    /\ inp.k = "rewrite"
    /\ out.k = "ok"
    /\ HasTruePred(inp.p.preds)
    /\ Len(inp.p.preds) = 2
    /\ out.node.oid = 0
    /\ Len(out.node.preds) = 1


\* --- the binder passes on statement lists ----------------------------------
NullEff == effect(<<>>, <<>>, <<>>, <<>>, <<>>)

\* the effect of a write of x at [y]
EffW(x, y) ==
    effect(<<>>, <<effset(x, <<EVar(y, tIdx)>>, <<>>, None)>>, <<>>, <<>>, <<>>)

\* the effect of reading x at every n below 8: n is an existential name
EffLoop(x, n) ==
    effect(<<effset(x, <<EVar(n, tIdx)>>, <<n>>,
                    EBinOp("<", EVar(n, tIdx), EConst(8, TScalar("int")),
                           tBool))>>,
           <<>>, <<>>, <<>>, <<>>)

\* a symbol that is not x
Other(x) == (x % NumSyms) + 1

AssignLeaves == {Assign(x, tR, <<Rd(y)>>, Rd(y), EffW(x, y)) : x, y \in Syms}

AllocLeaves == {Alloc(x, tR, NullEff) : x \in Syms}

WindowLeaves == {WindowStmt(x, Win(y), None) : x, y \in Syms}

Leaves ==
    AssignLeaves \cup AllocLeaves \cup WindowLeaves
    \cup {Reduce(x, tR, <<>>, StrideExpr(x, 0, TScalar("stride")), None) :
             x \in Syms}
    \cup {Alloc(x, Tensor(<<Rd(y)>>, FALSE, tR), None) : x, y \in Syms}
    \cup {WindowStmt(x, Win(y), EffW(x, y)) : x, y \in Syms}
    \cup {Pass(None), Pass(NullEff), Free(1, tR, None)}
    \cup {Call(1, <<Rd(x)>>, EffLoop(x, Other(x))) : x \in Syms}
    \cup {WriteConfig(1, "f", Rd(x), None) : x \in Syms}

Loops ==
    {Seq_(i, Rd(h), <<l>>, EffLoop(Other(i), i)) : i, h \in Syms, l \in Leaves}
    \cup {Seq_(i, Rd(i),
               <<Seq_(j, Rd(i), <<Assign(j, tR, <<Rd(i)>>, Rd(j), None)>>, None)>>,
               None) : i, j \in Syms}

BranchLeaves == AssignLeaves \cup AllocLeaves \cup WindowLeaves

Branches ==
    {If(Cmp(1), <<b>>, orelse, None) :
        b \in BranchLeaves, orelse \in {<<>>} \cup {<<c>> : c \in BranchLeaves}}
    \cup {If(Cmp(x), <<Alloc(x, tR, NullEff)>>, <<>>, EffW(x, x)) : x \in Syms}

Stmts == Leaves \cup Loops \cup Branches

Exprs == {Rd(x) : x \in Syms} \cup {Win(x) : x \in Syms}
         \cup {BinOp("+", Rd(x), Const(1, TScalar("int")), tIdx) : x \in Syms}

\* the remaining node variants: unary minus, built-in call, config read,
\* point access, config effect, Not and Select inside an effect
Rarer ==
    UNION {{USub(Rd(x), tIdx),
            BuiltIn(1, <<Rd(x)>>, tR),
            ReadConfig(1, "f", tIdx),
            WindowExpr(x, <<Point(Rd(x))>>,
                       WindowType(Tensor(<<Rd(x)>>, FALSE, tR), tR, x,
                                  <<Point(Rd(x))>>)),
            WriteConfig(1, "f", Rd(x),
                        effect(<<>>, <<>>, <<>>, <<>>,
                               <<config_eff(1, "f", EVar(x, tIdx),
                                            ENot(EVar(x, tBool), tBool))>>)),
            Assign(x, tR, <<>>, Rd(x),
                   effect(<<>>,
                          <<effset(x, <<ESelect(EVar(x, tBool), EVar(x, tIdx),
                                                EConst(0, TScalar("int")),
                                                tIdx)>>,
                                   <<>>, None)>>,
                          <<>>, <<>>, <<>>))} : x \in Syms}

\* what may follow a statement in the lists that are tried
Followers == AssignLeaves \cup AllocLeaves \cup Exprs

\* the identities of the elements of an input list
E1 == NumSyms + 11

E2 == NumSyms + 12

ListInputs ==
    {<<At(s, E1)>> : s \in Stmts \cup Exprs}
    \cup {<<At(s, E1), At(l, E2)>> : s \in Stmts, l \in Followers}
    \cup {<<At(s, E1), At(s, E1)>> : s \in Loops}
    \cup {<<At(r, E1)>> : r \in Rarer}
    \cup {<<At(Alloc(x, tR, NullEff), E1), At(r, E2)>> : x \in Syms, r \in Rarer}

BinderProcs ==
    {proc(args, <<Cmp(1)>>, <<s>>, None) :
        args \in {<<fnarg(x, tR)>> : x \in Syms}
                 \cup {<<fnarg(1, tR), fnarg(NumSyms, tIdx)>>},
        s \in Leaves}

\* the bindings SubstArgs is given
Bindings == {EmptyDict} \cup {x :> Rd(Other(x)) : x \in Syms}

NoRes == [k |-> "none"]

BinderInit ==
    /\ GraphIdle
    /\ CompileIdle
    /\ \/ \E S \in ListInputs : inp = [k |-> "binder", isproc |-> FALSE, node |-> S]
       \/ \E p \in BinderProcs : inp = [k |-> "binder", isproc |-> TRUE, node |-> p]
    /\ out = [k |-> "binder", fv |-> NoRes, alpha |-> NoRes, fv2 |-> NoRes,
              subst |-> NoRes]
    /\ fpc = "start"

\* FreeVars(S).result()
FreeVarsCall ==
    /\ fpc = "start"
    /\ inp.k = "binder"
    /\ ~inp.isproc
    /\ out' = [out EXCEPT !.fv = [k |-> "ok", set |-> FreeVars(inp.node)]]
    /\ fpc' = "fv"
    /\ UNCHANGED <<gvars, cvars, inp>>

\* Alpha_Rename(node).result(), node a procedure or a list
AlphaRenameCall ==
    /\ inp.k = "binder"
    /\ \/ fpc = "start" /\ inp.isproc
       \/ fpc = "fv"
    /\ out' = [out EXCEPT !.alpha =
                 IF inp.isproc
                 THEN Outcome(apply_proc([kind |-> "alpha"], inp.node, St0))
                 ELSE Outcome(apply_nodes([kind |-> "alpha"], inp.node, <<>>, St0))]
    /\ fpc' = "alpha"
    /\ UNCHANGED <<gvars, cvars, inp>>

\* FreeVars(Alpha_Rename(S).result()).result()
FreeVarsOfRenamed ==
    /\ fpc = "alpha"
    /\ inp.k = "binder"
    /\ ~inp.isproc
    /\ out.alpha.k = "ok"
    /\ out' = [out EXCEPT !.fv2 = [k |-> "ok", set |-> FreeVars(out.alpha.node)]]
    /\ fpc' = "fv2"
    /\ UNCHANGED <<gvars, cvars, inp>>

\* SubstArgs(S, binding).result()
SubstArgsCall ==
    /\ inp.k = "binder"
    /\ ~inp.isproc
    /\ \/ fpc = "fv2"
       \/ fpc = "alpha" /\ out.alpha.k = "raise"
    /\ \E b \in Bindings :
          out' = [out EXCEPT !.subst =
                    [binding |-> b] @@
                    Outcome(apply_nodes([kind |-> "subst", binding |-> b],
                                        inp.node, <<>>, St0))]
    /\ fpc' = "done"
    /\ UNCHANGED <<gvars, cvars, inp>>

BinderNext ==
    FreeVarsCall \/ AlphaRenameCall \/ FreeVarsOfRenamed \/ SubstArgsCall

SpecBinder == BinderInit /\ [][BinderNext]_vars


\* the existential names of the effsets of an effect, in order
RECURSIVE NamesOfSets(_)
NamesOfSets(sets) ==
    IF sets = <<>> THEN <<>> ELSE Head(sets).names \o NamesOfSets(Tail(sets))

NamesOfEffect(eff) ==
    IF IsNone(eff) THEN <<>>
    ELSE NamesOfSets(eff.reads) \o NamesOfSets(eff.writes)
         \o NamesOfSets(eff.reduces)

\* the symbols at the binding sites of a list of statements and expressions
RECURSIVE BindingSites(_)
BindingSites(nodes) ==
    IF nodes = <<>> THEN <<>>
    ELSE LET n == Head(nodes)
             own == CASE n.k = "Alloc" -> <<n.name>>
                      [] n.k = "WindowStmt" -> <<n.lhs>>
                      [] n.k = "Seq" -> <<n.iter>> \o BindingSites(n.body)
                      [] n.k = "If" ->
                           BindingSites(n.body) \o BindingSites(n.orelse)
                      [] OTHER -> <<>>
             eff == IF n.k \in StmtKinds THEN NamesOfEffect(n.eff) ELSE <<>>
         IN own \o eff \o BindingSites(Tail(nodes))

\* the binding sites of what Alpha_Rename returned
OutputSites ==
    IF inp.isproc
    THEN [i \in DOMAIN out.alpha.node.args |-> out.alpha.node.args[i].name]
         \o BindingSites(out.alpha.node.body)
         \o NamesOfEffect(out.alpha.node.eff)
    ELSE BindingSites(out.alpha.node)

\* C8: in the output of Alpha_Rename on a procedure or a statement list,
\* every binding site (formal argument, Alloc.name, WindowStmt.lhs, Seq.iter,
\* existential name of an effset) carries a symbol that is no symbol of the
\* input and differs from the symbol of every other binding site.
C8_FreshBinders ==
    (inp.k = "binder" /\ out.alpha.k = "ok") =>
        /\ \A i \in DOMAIN OutputSites : OutputSites[i] \notin Syms
        /\ \A i, j \in DOMAIN OutputSites :
              i # j => OutputSites[i] # OutputSites[j]

\* two sequential loops binding the same iter symbol, each with an effect
\* that binds an existential name, renamed to four different symbols
C8_Witness ==
    /\ inp.k = "binder"
    /\ ~inp.isproc
    /\ Len(inp.node) = 2
    /\ inp.node[1].k = "Seq"
    /\ inp.node[2].k = "Seq"
    /\ inp.node[1].iter = inp.node[2].iter
    /\ out.alpha.k = "ok"
    /\ Len(OutputSites) >= 4
    /\ out.alpha.node[1].iter # out.alpha.node[2].iter

\* C9: for every list S, FreeVars(S).result() equals
\* FreeVars(Alpha_Rename(S).result()).result(), also for references placed
\* in the type or the effect of the binding statement itself.
C9_FreeVarsPreserved ==
    (inp.k = "binder" /\ out.fv2.k = "ok") => out.fv2.set = out.fv.set

RECURSIVE RefNames(_)
RECURSIVE RefList(_)
RefNames(x) ==
    CASE x.k \in {"Read", "WindowExpr"} ->
           {x.name} \cup RefList(x.idx) \cup RefNames(x.type)
      [] x.k \in {"StrideExpr", "Effects.Var"} -> {x.name}
      [] x.k \in {"USub", "Effects.Not"} -> RefNames(x.arg)
      [] x.k \in {"BinOp", "Effects.BinOp"} -> RefNames(x.lhs) \cup RefNames(x.rhs)
      [] x.k = "BuiltIn" -> RefList(x.args)
      [] x.k = "Effects.Select" ->
           RefNames(x.cond) \cup RefNames(x.tcase) \cup RefNames(x.fcase)
      [] x.k = "Interval" -> RefNames(x.lo) \cup RefNames(x.hi)
      [] x.k = "Point" -> RefNames(x.pt)
      [] x.k \in {"Assign", "Reduce"} ->
           {x.name} \cup RefNames(x.type) \cup RefList(x.idx)
           \cup RefNames(x.rhs) \cup RefNames(x.eff)
      [] x.k \in {"WriteConfig", "WindowStmt"} -> RefNames(x.rhs) \cup RefNames(x.eff)
      [] x.k = "If" ->
           RefNames(x.cond) \cup RefList(x.body) \cup RefList(x.orelse)
           \cup RefNames(x.eff)
      [] x.k = "Seq" -> RefNames(x.hi) \cup RefList(x.body) \cup RefNames(x.eff)
      [] x.k \in {"Alloc", "Free"} -> RefNames(x.type) \cup RefNames(x.eff)
      [] x.k = "Call" -> RefList(x.args) \cup RefNames(x.eff)
      [] x.k = "Pass" -> RefNames(x.eff)
      [] x.k = "Tensor" -> RefList(x.hi) \cup RefNames(x.type)
      [] x.k = "WindowType" ->
           {x.src_buf} \cup RefNames(x.src_type) \cup RefNames(x.as_tensor)
           \cup RefList(x.idx)
      [] x.k = "effect" ->
           RefList(x.reads) \cup RefList(x.writes) \cup RefList(x.reduces)
           \cup RefList(x.config_reads) \cup RefList(x.config_writes)
      [] x.k = "effset" -> {x.buffer} \cup RefList(x.loc) \cup RefNames(x.pred)
      [] x.k = "config_eff" -> RefNames(x.value) \cup RefNames(x.pred)
      [] OTHER -> {}

RefList(xs) ==
    IF xs = <<>> THEN {} ELSE RefNames(Head(xs)) \cup RefList(Tail(xs))

\* SubstArgs was given the binding {s -> Read(s', [])}, s free in S, and
\* returned; s' occurs nowhere in S, neither referred to nor bound
RenamingOf(s) ==
    /\ inp.k = "binder"
    /\ fpc = "done"
    /\ out.subst.k = "ok"
    /\ out.fv.k = "ok"
    /\ DOMAIN out.subst.binding = {s}
    /\ s \in out.fv.set
    /\ out.subst.binding[s].name \notin RefList(inp.node)
    /\ \A i \in DOMAIN BindingSites(inp.node) :
          BindingSites(inp.node)[i] # out.subst.binding[s].name

\* C11: for a binding {s -> Read(s', [])} and every list S with s free in S,
\* no reference site of SubstArgs(S, binding).result() names s (Effects.Var
\* inside Not and Select included), and FreeVars of the result is
\* (FreeVars(S) minus {s}) union {s'}.
C11_SubstRenames ==
    \A s \in Syms :
        RenamingOf(s) =>
            /\ s \notin RefList(out.subst.node)
            /\ FreeVars(out.subst.node) =
                   (out.fv.set \ {s}) \cup {out.subst.binding[s].name}

\* ------------------------------------------------------------------------
\* Compiler.comp_e on expression trees
\* ------------------------------------------------------------------------
tInt == TScalar("int")

tSize == TScalar("size")

tF32 == TScalar("f32")

tStride == TScalar("stride")

\* a Compiler object in whose scope symbol 1 is an index-like variable i of
\* type ityp and symbol 2 is the buffer x, a tensor of three dimensions
EmitState(ityp) ==
    [env |-> <<(1 :> Name("i") @@ 2 :> Name("x"))>>,
     names |-> <<(Name("i") :> Name("i") @@ Name("x") :> Name("x"))>>,
     str |-> (1 :> Name("i") @@ 2 :> Name("x")),
     envtyp |-> (1 :> ityp @@ 2 :> Tensor(<<Const(8, tInt), Const(4, tInt),
                                             Const(2, tInt)>>, FALSE, tF32)),
     mems |-> (1 :> DRAM @@ 2 :> DRAM),
     scalar_refs |-> {},
     non_const |-> {},
     needed_helpers |-> {},
     err |-> "",
     msg |-> <<>>]

EmitLeaves ==
    {Read(1, <<>>, tIdx), Const(1, tInt), Const(-1, tInt),
     StrideExpr(2, 0, tStride), StrideExpr(2, 1, tStride)}

\* the twelve operators with the type of their result; the division once at
\* a floating-point type and once at an integer type
OpTypes ==
    {<<op, tBool>> : op \in {"or", "and", "==", "<", ">", "<=", ">="}}
    \cup {<<op, tIdx>> : op \in {"+", "-", "*", "/", "%"}}
    \cup {<<"/", tF32>>}

\* expressions of one operator over the leaves
EmitExprs1 ==
    EmitLeaves \cup {USub(l, tIdx) : l \in EmitLeaves}
    \cup {BinOp(ot[1], l, r, ot[2]) : ot \in OpTypes, l \in EmitLeaves, r \in EmitLeaves}

\* the division (i + 3) / 4 with operands and result of type t
DivExpr(t) ==
    BinOp("/", BinOp("+", Read(1, <<>>, t), Const(3, t), t), Const(4, t), t)

\* the expression handed to comp_e: one of the above, its negation, or a
\* BinOp with one of the above as its left or as its right operand; or the
\* division (i + 3) / 4 at an index, a size or a floating-point type
EmitInit ==
    /\ GraphIdle
    /\ CompileIdle
    /\ \/ \E t \in {tIdx, tSize, tF32} :
             inp = [k |-> "comp_e", e |-> DivExpr(t), cs |-> EmitState(t)]
       \/ \E a \in EmitExprs1 :
             \/ inp = [k |-> "comp_e", e |-> a, cs |-> EmitState(tIdx)]
             \/ inp = [k |-> "comp_e", e |-> USub(a, tIdx), cs |-> EmitState(tIdx)]
             \/ \E ot \in OpTypes, l \in EmitLeaves :
                   \/ inp = [k |-> "comp_e", e |-> BinOp(ot[1], a, l, ot[2]),
                             cs |-> EmitState(tIdx)]
                   \/ inp = [k |-> "comp_e", e |-> BinOp(ot[1], l, a, ot[2]),
                             cs |-> EmitState(tIdx)]
    /\ out = [k |-> "none"]
    /\ fpc = "start"

\* what the caller of a Compiler method gets: the text, or the exception
Emitted(r) ==
    IF r.st.err # ""
    THEN [k |-> "raise", exc |-> r.st.err, msg |-> Text(r.st.msg)]
    ELSE [k |-> "ok", pieces |-> r.r, text |-> Text(r.r),
          helpers |-> r.st.needed_helpers]

\* self.comp_e(e)
CompE ==
    /\ fpc = "start"
    /\ inp.k = "comp_e"
    /\ out' = Emitted(comp_e(inp.cs, inp.e, 0))
    /\ fpc' = "done"
    /\ UNCHANGED <<gvars, cvars, inp>>

EmitNext == CompE

SpecEmit == EmitInit /\ [][EmitNext]_vars

\* ------------------------------------------------------------------------
\* Reading a C expression back: the tokens of a text and the tree that the
\* C grammar gives them
\* ------------------------------------------------------------------------
\* blanks separate tokens; two minus signs written without a blank between
\* them are the one token --
RECURSIVE Lex(_)
Lex(pieces) ==
    CASE pieces = <<>> -> <<>>
      [] Head(pieces) = " " -> Lex(Tail(pieces))
      [] Len(pieces) >= 2 /\ pieces[1] = "-" /\ pieces[2] = "-" ->
           <<"--">> \o Lex(Tail(Tail(pieces)))
      [] OTHER -> <<Head(pieces)>> \o Lex(Tail(pieces))

\* the precedence of a binary operator of C, 0 for any other token
CPrec(tok) ==
    CASE tok = "||" -> 10
      [] tok = "&&" -> 20
      [] tok = "==" -> 30
      [] tok \in {"<", ">", "<=", ">="} -> 40
      [] tok \in {"+", "-"} -> 50
      [] tok \in {"*", "/", "%"} -> 60
      [] OTHER -> 0

NoParse == [t |-> [k |-> "fail"], rest |-> <<>>]

Parsed(t, rest) == [t |-> t, rest |-> rest]

RECURSIVE ParseE(_, _)
RECURSIVE ParseLoop(_, _, _)
RECURSIVE ParseUnary(_)
RECURSIVE ParseArgs(_, _, _)

\* an expression whose binary operators all have precedence minp or more
ParseE(toks, minp) ==
    LET u == ParseUnary(toks)
    IN IF u.t.k = "fail" THEN u ELSE ParseLoop(u.t, u.rest, minp)

\* left associative: the right operand takes operators that bind tighter
ParseLoop(lhs, toks, minp) ==
    IF toks = <<>> \/ CPrec(Head(toks)) = 0 \/ CPrec(Head(toks)) < minp
    THEN Parsed(lhs, toks)
    ELSE LET r == ParseE(Tail(toks), CPrec(Head(toks)) + 1)
         IN IF r.t.k = "fail" THEN r
            ELSE ParseLoop([k |-> "bin", op |-> Head(toks), l |-> lhs, r |-> r.t],
                           r.rest, minp)

ParseUnary(toks) ==
    CASE toks = <<>> -> NoParse
      [] Head(toks) \in {"-", "--"} ->
           LET a == ParseUnary(Tail(toks))
           IN IF a.t.k = "fail" THEN a
              ELSE Parsed([k |-> IF Head(toks) = "-" THEN "neg" ELSE "predec",
                           arg |-> a.t], a.rest)
      [] Head(toks) = "(" ->
           LET a == ParseE(Tail(toks), 0)
           IN IF a.t.k = "fail" \/ a.rest = <<>> \/ Head(a.rest) # ")" THEN NoParse
              ELSE Parsed(a.t, Tail(a.rest))
      [] Head(toks) \in {")", ","} \/ CPrec(Head(toks)) > 0 -> NoParse
      [] Len(toks) >= 2 /\ toks[2] = "(" ->
           ParseArgs(Head(toks), Tail(Tail(toks)), <<>>)
      [] OTHER -> Parsed([k |-> "atom", a |-> Head(toks)], Tail(toks))

\* the arguments of a call of f, after the opening parenthesis
ParseArgs(f, toks, args) ==
    LET a == ParseE(toks, 0)
    IN CASE a.t.k = "fail" \/ a.rest = <<>> -> NoParse
         [] Head(a.rest) = "," -> ParseArgs(f, Tail(a.rest), Append(args, a.t))
         [] Head(a.rest) = ")" ->
              Parsed([k |-> "call", f |-> f, args |-> Append(args, a.t)],
                     Tail(a.rest))
         [] OTHER -> NoParse

\* the tree of a whole text
Parse(pieces) ==
    LET r == ParseE(Lex(pieces), 0)
    IN IF r.t.k # "fail" /\ r.rest = <<>> THEN r.t ELSE [k |-> "fail"]

\* the tree that the expression e is: a negative constant is the negation of
\* its absolute value, an integer division is the call of exo_floor_div or
\* the C division, a stride is the tree of its own text
RECURSIVE Tree(_, _)
Tree(cs, e) ==
    CASE e.k = "Read" -> [k |-> "atom", a |-> env_str(cs, e.name)]
      [] e.k = "Const" ->
           IF e.val < 0 THEN [k |-> "neg", arg |-> [k |-> "atom", a |-> ToString(-e.val)]]
           ELSE [k |-> "atom", a |-> ToString(e.val)]
      [] e.k = "USub" -> [k |-> "neg", arg |-> Tree(cs, e.arg)]
      [] e.k = "StrideExpr" -> Parse(comp_e(cs, e, 0).r)
      [] e.k = "BinOp" /\ e.op = "/" /\ ~is_numeric(e.type)
            /\ e.lhs.type # TScalar("size") ->
           [k |-> "call", f |-> "exo_floor_div",
            args |-> <<Tree(cs, e.lhs), Tree(cs, e.rhs)>>]
      [] e.k = "BinOp" ->
           [k |-> "bin",
            op |-> CASE e.op = "and" -> "&&" [] e.op = "or" -> "||" [] OTHER -> e.op,
            l |-> Tree(cs, e.lhs), r |-> Tree(cs, e.rhs)]

\* C12: for every expression tree e over BinOp of the twelve operators,
\* USub, Const (negative ones included), scalar Read and StrideExpr, the
\* text comp_e(e, 0), read back with the C precedences and left
\* associativity, is the tree e again.
C12_RoundTrip ==
    (inp.k = "comp_e" /\ fpc = "done" /\ out.k = "ok") =>
        Parse(out.pieces) = Tree(inp.cs, inp.e)

\* comp_e has returned for the division (i + 3) / 4 at the type t
Divided(t) ==
    /\ inp.k = "comp_e"
    /\ fpc = "done"
    /\ inp.e = DivExpr(t)
    /\ out.k = "ok"

\* C13 as stated: comp_e on (i + 3) / 4 returns exo_floor_div((i + 3),4) for
\* i of type index, (((i + 3)) / (4)) for operands of type size, and uses
\* the C operator / at a floating-point type.
C13_DivisionAsStated ==
    /\ Divided(tIdx) => out.text = "exo_floor_div((i + 3),4)"
    /\ Divided(tSize) => out.text = "(((i + 3)) / (4))"
    /\ Divided(tF32) => out.text = "(i + 3) / 4"

\* C13 amended: the index division is the call exo_floor_div(i + 3, 4) and
\* records the helper, the size division is ((i + 3) / (4)), and the
\* floating-point division is (i + 3) / 4 with no helper.
C13_Division ==
    /\ Divided(tIdx) =>
          out.text = "exo_floor_div(i + 3, 4)" /\ out.helpers = {"exo_floor_div"}
    /\ Divided(tSize) => out.text = "((i + 3) / (4))" /\ out.helpers = {}
    /\ Divided(tF32) => out.text = "(i + 3) / 4" /\ out.helpers = {}

\* the index division compiled to the call of the helper
C13_Witness ==
    /\ Divided(tIdx)
    /\ out.pieces[1] = "exo_floor_div"
    /\ "exo_floor_div" \in out.helpers

\* ------------------------------------------------------------------------
\* Compiler(proc, ...) on procedures that read, pass and window a buffer
\* ------------------------------------------------------------------------
effs(writes, reduces) ==
    effect(<<>>, [i \in DOMAIN writes |-> effset(writes[i], <<>>, <<>>, None)],
           [i \in DOMAIN reduces |-> effset(reduces[i], <<>>, <<>>, None)], <<>>, <<>>)

\* the statements of a block and of the blocks inside it
RECURSIVE AllStmts(_)
AllStmts(stmts) ==
    IF stmts = <<>> THEN <<>>
    ELSE <<Head(stmts)>>
         \o (CASE Head(stmts).k = "If" ->
                    AllStmts(Head(stmts).body) \o AllStmts(Head(stmts).orelse)
               [] Head(stmts).k = "Seq" -> AllStmts(Head(stmts).body)
               [] OTHER -> <<>>)
         \o AllStmts(Tail(stmts))

\* the effect summary of a body: a write for each Assign and a reduce for
\* each Reduce, on the buffer of the statement
EffOf(body) ==
    effs([i \in DOMAIN SelectSeq(AllStmts(body), LAMBDA s : s.k = "Assign") |->
            SelectSeq(AllStmts(body), LAMBDA s : s.k = "Assign")[i].name],
         [i \in DOMAIN SelectSeq(AllStmts(body), LAMBDA s : s.k = "Reduce") |->
            SelectSeq(AllStmts(body), LAMBDA s : s.k = "Reduce")[i].name])

\* a memory class whose can_read() is False (exo.platforms.neon)
Neon4f == [k |-> "Memory", name |-> "Neon4f", can_read |-> FALSE]

\* the symbols of the procedure and their printable names
ProcStrs ==
    (1 :> Name("n") @@ 2 :> Name("dst") @@ 3 :> Name("src") @@ 4 :> Name("b")
     @@ 5 :> Name("i") @@ 6 :> Name("w") @@ 7 :> Name("tmp") @@ 8 :> Name("a"))

rN == Read(1, <<>>, tSize)

c0 == Const(0, tInt)

tVec == Tensor(<<rN>>, FALSE, tF32)

tWinArg == Tensor(<<rN>>, TRUE, tF32)

\* the type of the window name[0:n] of a buffer of type typ
tWin(name, typ) ==
    WindowType(typ, Tensor(<<rN>>, TRUE, tF32), name, <<Interval(c0, rN)>>)

\* the instr string of an instruction: its literal pieces and, by their
\* keys, its replacement fields
Template(pieces) == [k |-> "str", pieces |-> pieces]

\* a procedure g(a) that is called, and an instruction with a template
Callee(typ, template) ==
    proc_named("g", <<fnarg_mem(8, typ, None)>>, <<>>, <<Pass(None)>>, template,
               effs(<<>>, <<>>))

\* the index list of an element: [j], or none when the buffer is a scalar
Idx(typ, j) == IF typ = tF32 THEN <<>> ELSE <<j>>

\* x[j], or x when x is a scalar
Elem(x, typ, j) == Read(x, Idx(typ, j), tF32)

Window(x, typ) == WindowExpr(x, <<Interval(c0, rN)>>, tWin(x, typ))

\* the bodies: srcT, dstT and bT are the types of src, dst and b
ProcBodies(srcT, dstT, bT) ==
    {<<Seq_(5, rN, <<Assign(2, tF32, Idx(dstT, Read(5, <<>>, tIdx)),
                            Elem(3, srcT, Read(5, <<>>, tIdx)), None)>>, None)>>,
     <<Reduce(2, tF32, Idx(dstT, c0), BinOp("*", Elem(3, srcT, c0), Elem(3, srcT, c0), tF32),
              None)>>,
     <<Call(Callee(srcT, None), <<Read(3, <<>>, srcT)>>, None)>>,
     <<Alloc_mem(7, tF32, DRAM), Call(Callee(tF32, None), <<Read(7, <<>>, tF32)>>, None),
       Free_mem(7, tF32, DRAM)>>,
     <<Assign(2, tF32, Idx(dstT, c0), Const(1, tF32), None)>>,
     <<Assign(3, tF32, Idx(srcT, c0), Const(1, tF32), None)>>,
     <<Reduce(3, tF32, Idx(srcT, c0), Elem(2, dstT, c0), None)>>,
     <<Alloc_mem(7, tF32, Neon4f), Assign(2, tF32, Idx(dstT, c0), Read(7, <<>>, tF32), None),
       Free_mem(7, tF32, Neon4f)>>,
     <<Alloc_mem(7, tF32, Neon4f),
       Call(Callee(tF32, Template(<<"st", "(", "a_data", ")", ";">>)), <<Read(7, <<>>, tF32)>>, None),
       Free_mem(7, tF32, Neon4f)>>}
    \cup (IF srcT = tWinArg THEN {}
          ELSE {<<Call(Callee(srcT, Template(<<"ld", "(", "a", ")", ";">>)),
                       <<Read(3, <<>>, srcT)>>, None)>>})
    \cup (IF srcT = tF32
          THEN {<<Assign(2, tF32, Idx(dstT, c0),
                         BuiltIn("sin", <<Read(3, <<>>, tF32)>>, tF32), None)>>}
          ELSE {<<WindowStmt(6, Window(3, srcT), None),
                  Assign(2, tF32, Idx(dstT, c0), Read(6, <<c0>>, tF32), None)>>,
                <<WindowStmt(6, Window(3, srcT), None),
                  Call(Callee(tWinArg, None), <<Read(6, <<>>, tWin(3, srcT))>>, None)>>,
                <<WindowStmt(6, Window(3, srcT), None), Pass(None)>>,
                <<Call(Callee(tWinArg, None), <<Window(3, srcT)>>, None)>>})
    \cup (CASE bT = tBool -> {<<If(Read(4, <<>>, tBool), <<Pass(None)>>, <<>>, None)>>}
            [] bT = tIdx ->
                 {<<Assign(2, tF32, Idx(dstT, Read(4, <<>>, tIdx)), Const(1, tF32), None)>>}
            [] OTHER ->
                 {<<If(BinOp("==", Read(4, <<>>, tStride), Const(1, tInt), tBool),
                       <<Pass(None)>>, <<Pass(None)>>, None)>>})

\* the procedure p(n, dst, src, b) handed to Compiler
ProcInit ==
    /\ GraphIdle
    /\ CompileIdle
    /\ \E srcT \in {tF32, tVec, tWinArg}, dstT \in {tF32, tVec},
          bT \in {tBool, tIdx, tStride},
          srcM \in {None, DRAM, Neon4f}, dstM \in {None, DRAM},
          public \in BOOLEAN :
          \E body \in ProcBodies(srcT, dstT, bT) :
             inp = [k |-> "Compiler",
                    p |-> proc_named("p",
                                     <<fnarg_mem(1, tSize, None), fnarg_mem(2, dstT, dstM),
                                       fnarg_mem(3, srcT, srcM), fnarg_mem(4, bT, None)>>,
                                     <<>>, body, None, EffOf(body)),
                    public |-> public]
    /\ out = [k |-> "none"]
    /\ fpc = "start"

\* what the caller of Compiler(...) gets: the object, or the exception
Compiled(cs) ==
    IF cs.err # ""
    THEN [k |-> "raise", exc |-> cs.err, msg |-> Text(cs.msg)]
    ELSE [k |-> "ok", proc_decl |-> cs.proc_decl, proc_def |-> cs.proc_def,
          arg_strs |-> [i \in DOMAIN cs.arg_strs |-> Text(cs.arg_strs[i])]]

\* comp = Compiler(p, ctxt_name, is_public_decl=...)
CompileProc ==
    /\ fpc = "start"
    /\ inp.k = "Compiler"
    /\ out' = Compiled(Compiler(inp.p, "void", inp.public, ProcStrs))
    /\ fpc' = "done"
    /\ UNCHANGED <<gvars, cvars, inp>>

ProcNext == CompileProc

SpecProc == ProcInit /\ [][ProcNext]_vars

\* ------------------------------------------------------------------------
\* Reads of buffers in memories that cannot be read
\* ------------------------------------------------------------------------
\* the memory class of the buffer x of procedure p: the annotation of the
\* argument or of the Alloc, DRAM without one; a window bound by a
\* WindowStmt has the class of the buffer it is a window of
RECURSIVE BufferMem(_, _, _)
BufferMem(p, x, n) ==
    LET ss == AllStmts(p.body) IN
    CASE \E i \in DOMAIN p.args : p.args[i].name = x ->
           LET a == p.args[CHOOSE i \in DOMAIN p.args : p.args[i].name = x] IN
           IF IsNone(a.mem) \/ ~is_numeric(a.type) THEN DRAM ELSE a.mem
      [] \E i \in DOMAIN ss : ss[i].k = "Alloc" /\ ss[i].name = x ->
           LET a == ss[CHOOSE i \in DOMAIN ss : ss[i].k = "Alloc" /\ ss[i].name = x] IN
           IF IsNone(a.mem) THEN DRAM ELSE a.mem
      [] n > 0 /\ \E i \in DOMAIN ss : ss[i].k = "WindowStmt" /\ ss[i].lhs = x ->
           BufferMem(p, ss[CHOOSE i \in DOMAIN ss :
                              ss[i].k = "WindowStmt" /\ ss[i].lhs = x].rhs.name, n - 1)
      [] OTHER -> DRAM

\* x names a numeric buffer of p: a scalar real, a tensor or a window
IsBuffer(p, x) ==
    LET ss == AllStmts(p.body) IN
    \/ \E i \in DOMAIN p.args : p.args[i].name = x /\ is_numeric(p.args[i].type)
    \/ \E i \in DOMAIN ss : \/ ss[i].k = "Alloc" /\ ss[i].name = x
                            \/ ss[i].k = "WindowStmt" /\ ss[i].lhs = x

\* the names of the Read nodes of an expression that the emitter compiles,
\* each with where it stands: "arg" when the Read is itself an argument of
\* a call, "expr" otherwise
RECURSIVE ReadSites(_, _)
RECURSIVE ReadSitesOfList(_, _)
ReadSites(e, site) ==
    CASE e.k = "Read" -> {<<e.name, site>>} \cup ReadSitesOfList(e.idx, "expr")
      [] e.k = "USub" -> ReadSites(e.arg, "expr")
      [] e.k = "BinOp" -> ReadSites(e.lhs, "expr") \cup ReadSites(e.rhs, "expr")
      [] e.k = "BuiltIn" -> ReadSitesOfList(e.args, "arg")
      [] e.k = "WindowExpr" ->
           ReadSitesOfList([i \in DOMAIN e.idx |-> w_lo(e.idx[i])], "expr")
      [] OTHER -> {}

ReadSitesOfList(es, site) ==
    IF es = <<>> THEN {} ELSE ReadSites(Head(es), site) \cup ReadSitesOfList(Tail(es), site)

ReadSitesOfStmt(s) ==
    CASE s.k \in {"Assign", "Reduce"} ->
           ReadSitesOfList(s.idx, "expr") \cup ReadSites(s.rhs, "expr")
      [] s.k = "WriteConfig" -> ReadSites(s.rhs, "expr")
      [] s.k = "WindowStmt" -> ReadSites(s.rhs, "expr")
      [] s.k = "If" -> ReadSites(s.cond, "expr")
      [] s.k = "Seq" -> ReadSites(s.hi, "expr")
      [] s.k = "Call" -> ReadSitesOfList(s.args, "arg")
      [] OTHER -> {}

ReadSitesOfProc(p) ==
    LET ss == AllStmts(p.body) IN
    UNION {ReadSitesOfStmt(ss[i]) : i \in DOMAIN ss}
    \cup ReadSitesOfList(SelectSeq(p.preds, LAMBDA e : e.k # "Const"), "expr")

\* the Reads of p, standing at one of sites, of a numeric buffer whose
\* memory class cannot be read
UnreadableReads(p, sites) ==
    {rs \in ReadSitesOfProc(p) :
        /\ rs[2] \in sites
        /\ IsBuffer(p, rs[1])
        /\ ~BufferMem(p, rs[1], Len(AllStmts(p.body))).can_read}

\* the message of the error for the Read rs
CannotRead(p, rs) ==
    "cannot read from buffer '" \o NameStr(ProcStrs[rs[1]]) \o "' in memory '"
    \o BufferMem(p, rs[1], Len(AllStmts(p.body))).name \o "'"

\* the outcome that the claim gives a procedure whose unreadable Reads are U
RaisesFor(p, U) ==
    IF U # {}
    THEN /\ out.k = "raise"
         /\ out.exc = "MemGenError"
         /\ \E rs \in U : out.msg = CannotRead(p, rs)
         /\ DOMAIN out = {"k", "exc", "msg"}
    ELSE ~(out.k = "raise" /\ out.exc = "MemGenError")

\* C14 as stated: compilation raises MemGenError, naming the buffer and the
\* memory class and returning no text, whenever the procedure has a Read of
\* a numeric buffer in a memory that cannot be read, wherever the Read
\* stands, and never otherwise
C14_AnyReadRaises ==
    fpc = "done" /\ inp.k = "Compiler"
    => RaisesFor(inp.p, UnreadableReads(inp.p, {"expr", "arg"}))

\* C14: compilation raises MemGenError, naming the buffer and the memory
\* class and returning no text, exactly when the procedure has a Read of a
\* numeric buffer in a memory that cannot be read (a window bound by a
\* WindowStmt has the memory of its buffer) and the Read is not itself an
\* argument of a call; a Read that is itself an argument is passed by name
\* or by address and is not checked
C14_ExprReadRaises ==
    fpc = "done" /\ inp.k = "Compiler"
    => RaisesFor(inp.p, UnreadableReads(inp.p, {"expr"}))

\* the element of a window over src, in Neon4f, is read and MemGenError raised
C14_Witness ==
    /\ fpc = "done" /\ inp.k = "Compiler"
    /\ inp.p.body[1].k = "WindowStmt"
    /\ <<6, "expr">> \in UnreadableReads(inp.p, {"expr"})
    /\ out.k = "raise" /\ out.exc = "MemGenError"
    /\ out.msg = "cannot read from buffer 'w' in memory 'Neon4f'"

\* ------------------------------------------------------------------------
\* The const qualifier in the signature
\* ------------------------------------------------------------------------
\* the text of the pointer argument a, with or without the qualifier
PointerArg(a, const) ==
    (IF const THEN "const " ELSE "") \o ctype(basetype(a.type)) \o "* "
    \o NameStr(ProcStrs[a.name])

\* the arguments of p that are passed as a pointer: the numeric arguments
\* that are not windows
PointerArgs(p) ==
    {i \in DOMAIN p.args : is_numeric(p.args[i].type) /\ ~is_win(p.args[i].type)}

\* C15 as stated: a tensor argument is const exactly when the effect of the
\* procedure has no write and no reduce on it, and a scalar-real argument
\* is never const
C15_ScalarNeverConst ==
    fpc = "done" /\ inp.k = "Compiler" /\ out.k = "ok"
    => \A i \in PointerArgs(inp.p) :
          out.arg_strs[i + 1] =
             PointerArg(inp.p.args[i],
                        /\ is_tensor_or_window(inp.p.args[i].type)
                        /\ inp.p.args[i].name \notin written_buffers(inp.p.eff))

\* C15: the pointer of a non-window numeric argument, tensor or scalar
\* real, is const exactly when the effect of the procedure has no write and
\* no reduce on that buffer
C15_ConstIffUnwritten ==
    fpc = "done" /\ inp.k = "Compiler" /\ out.k = "ok"
    => \A i \in PointerArgs(inp.p) :
          out.arg_strs[i + 1] =
             PointerArg(inp.p.args[i],
                        inp.p.args[i].name \notin written_buffers(inp.p.eff))

\* dst is a written scalar, src a scalar that is only read
C15_Witness ==
    /\ fpc = "done" /\ inp.k = "Compiler" /\ out.k = "ok"
    /\ PointerArgs(inp.p) = {2, 3}
    /\ inp.p.args[3].type = tF32
    /\ written_buffers(inp.p.eff) = {2}
    /\ out.arg_strs[3] = "float* dst"
    /\ out.arg_strs[4] = "const float* src"

\* ------------------------------------------------------------------------
\* The names of one procedure: new_varname, push and pop as comp_s and
\* Compiler.__init__ call them
\* ------------------------------------------------------------------------
\* the symbols of the procedure besides ctxt, and how deep its blocks nest
NumNameSyms == 2

MaxDepth == 2

\* the printable names a symbol may have
PrintNames ==
    {Name("x"), [stem |-> "x", suf |-> 1], [stem |-> "x", suf |-> 2],
     [stem |-> "x", suf |-> NoDigits], Name("ctxt")}

\* inp.cs is the Compiler object; nothing is bound yet
NamesInit ==
    /\ GraphIdle
    /\ CompileIdle
    /\ \E strs \in [1..NumNameSyms -> PrintNames] :
          inp = [k |-> "names",
                 cs |-> Compiler_fields(proc_named("p", <<>>, <<>>, <<>>, None,
                                                   effs(<<>>, <<>>)), strs)]
    /\ out = [k |-> "none"]
    /\ fpc = "start"

\* the symbols that have been handed to new_varname
Named == DOMAIN inp.cs.envtyp

Running == inp.k = "names" /\ inp.cs.err = ""

\* self.new_varname(Sym("ctxt"), None), the first thing __init__ binds
ReserveCtxt ==
    /\ Running
    /\ fpc = "start"
    /\ inp' = [inp EXCEPT !.cs = new_varname(inp.cs, ctxt_sym, None, None).st]
    /\ out' = [k |-> "bound", symbol |-> ctxt_sym]
    /\ fpc' = "open"
    /\ UNCHANGED <<gvars, cvars>>

\* new_varname for a formal argument, an Alloc or the lhs of a WindowStmt:
\* every symbol is bound once, here in the order of the symbols
BindName ==
    /\ Running
    /\ fpc = "open"
    /\ \E symbol \in 1..NumNameSyms :
          /\ symbol \notin Named
          /\ \A t \in 1..NumNameSyms : t < symbol => t \in Named
          /\ inp' = [inp EXCEPT !.cs = new_varname(inp.cs, symbol, tF32, None).st]
          /\ out' = [k |-> "bound", symbol |-> symbol]
    /\ UNCHANGED <<gvars, cvars, fpc>>

\* the branch of an If is entered
EnterBranch ==
    /\ Running
    /\ fpc = "open"
    /\ Len(inp.cs.env) <= MaxDepth
    /\ inp' = [inp EXCEPT !.cs = Compiler_push(inp.cs, "None")]
    /\ out' = [k |-> "pushed"]
    /\ UNCHANGED <<gvars, cvars, fpc>>

\* a Seq loop is entered: push(only="env"), new_varname(s.iter), push(only="tab")
EnterLoop ==
    /\ Running
    /\ fpc = "open"
    /\ Len(inp.cs.env) <= MaxDepth
    /\ \E symbol \in 1..NumNameSyms :
          /\ symbol \notin Named
          /\ \A t \in 1..NumNameSyms : t < symbol => t \in Named
          /\ inp' = [inp EXCEPT !.cs =
                        Compiler_push(new_varname(Compiler_push(inp.cs, "env"), symbol,
                                                  tIdx, None).st, "tab")]
          /\ out' = [k |-> "bound", symbol |-> symbol]
    /\ UNCHANGED <<gvars, cvars, fpc>>

\* the block of a branch or of a loop ends
LeaveBlock ==
    /\ Running
    /\ fpc = "open"
    /\ Len(inp.cs.env) > 1
    /\ inp' = [inp EXCEPT !.cs = Compiler_pop(inp.cs)]
    /\ out' = [k |-> "popped"]
    /\ UNCHANGED <<gvars, cvars, fpc>>

NamesNext == ReserveCtxt \/ BindName \/ EnterBranch \/ EnterLoop \/ LeaveBlock

SpecNames == NamesInit /\ [][NamesNext]_vars

\* the symbols bound in the live scope chain
Live == {x \in Named : EnvHas(inp.cs.env, x)}

\* C20: while one procedure is emitted, any two distinct symbols bound in
\* the live scope chain have different C identifiers, whatever their
\* printable names are
C20_LiveNamesDistinct ==
    inp.k = "names"
    => \A a \in Live : \A b \in Live :
          a # b => env_str(inp.cs, a) # env_str(inp.cs, b)

\* inside a block, two live symbols that are both printed x, or one that
\* is printed ctxt next to the reserved ctxt
C20_Witness ==
    /\ inp.k = "names" /\ inp.cs.err = ""
    /\ Len(inp.cs.env) > 1
    /\ \E a \in Live : \E b \in Live :
          /\ a # b
          /\ inp.cs.str[a] = inp.cs.str[b]
          /\ EnvGet(inp.cs.env, a) = inp.cs.str[a]
          /\ EnvGet(inp.cs.env, b) = [inp.cs.str[b] EXCEPT !.suf = 1]

\* ------------------------------------------------------------------------
\* Public and static declarations
\* ------------------------------------------------------------------------
\* the header has a forward declaration of p that is not static
DeclaredPublic(p) ==
    \E i \in DOMAIN cout.header[1] :
       cout.header[1][i] = [what |-> "decl", name |-> pname[p], static |-> FALSE]

\* the source has a static forward declaration of p
DeclaredStatic(p) ==
    \E i \in DOMAIN cout.body[2] :
       cout.body[2][i] = [what |-> "decl", name |-> pname[p], static |-> TRUE]

\* p is declared somewhere, in the header or among the private declarations
Declared(p) ==
    \/ \E i \in DOMAIN cout.header[1] : cout.header[1][i].name = pname[p]
    \/ \E i \in DOMAIN cout.body[2] : cout.body[2][i].name = pname[p]

\* C16 as stated: a procedure of the closure has a non-static forward
\* declaration in the header exactly when it is an element of the seed
\* list, and every other procedure of the closure is declared static in
\* the source, instruction procedures included
C16_SeedsPublicInstrIncluded ==
    cpc = "returned"
    => \A p \in Range(result) :
          /\ DeclaredPublic(p) <=> p \in Range(seeds)
          /\ p \notin Range(seeds) => DeclaredStatic(p)

\* C16: a procedure of the closure that is not an instruction has a
\* non-static forward declaration in the header exactly when it is an
\* element of the seed list, also when it is a callee of another seed, and
\* is declared static in the source otherwise; a procedure with an instr
\* template has no declaration at all, seed or not
C16_SeedsPublic ==
    cpc = "returned"
    => \A p \in Range(result) :
          IF p \in instr THEN ~Declared(p)
          ELSE /\ DeclaredPublic(p) <=> p \in Range(seeds)
               /\ DeclaredStatic(p) <=> p \notin Range(seeds)

\* two seeds, the one a callee of the other, are both declared in the header
C16_Witness ==
    /\ cpc = "returned"
    /\ \E a \in Range(seeds) : \E b \in Range(seeds) :
          /\ a # b /\ b \in calls[a]
          /\ instr = {}
          /\ DeclaredPublic(a) /\ DeclaredPublic(b)

\* ------------------------------------------------------------------------
\* Procedures and configs of the same name
\* ------------------------------------------------------------------------
\* the configs that the ReadConfig and WriteConfig nodes of a statement, an
\* expression, a window access or a type name
RECURSIVE ConfigsIn(_)
RECURSIVE ConfigsInList(_)
ConfigsIn(x) ==
    CASE x.k = "ReadConfig" -> {x.config}
      [] x.k = "WriteConfig" -> {x.config} \cup ConfigsIn(x.rhs)
      [] x.k \in {"Assign", "Reduce"} ->
           ConfigsInList(x.idx) \cup ConfigsIn(x.rhs) \cup ConfigsIn(x.type)
      [] x.k = "WindowStmt" -> ConfigsIn(x.rhs)
      [] x.k = "If" ->
           ConfigsIn(x.cond) \cup ConfigsInList(x.body) \cup ConfigsInList(x.orelse)
      [] x.k = "Seq" -> ConfigsIn(x.hi) \cup ConfigsInList(x.body)
      [] x.k \in {"Alloc", "Free"} -> ConfigsIn(x.type)
      [] x.k = "Call" -> ConfigsInList(x.args)
      [] x.k = "Read" -> ConfigsInList(x.idx) \cup ConfigsIn(x.type)
      [] x.k = "USub" -> ConfigsIn(x.arg)
      [] x.k = "BinOp" -> ConfigsIn(x.lhs) \cup ConfigsIn(x.rhs)
      [] x.k = "BuiltIn" -> ConfigsInList(x.args)
      [] x.k = "WindowExpr" -> ConfigsInList(x.idx) \cup ConfigsIn(x.type)
      [] x.k = "Interval" -> ConfigsIn(x.lo) \cup ConfigsIn(x.hi)
      [] x.k = "Point" -> ConfigsIn(x.pt)
      [] x.k = "Tensor" -> ConfigsInList(x.hi)
      [] x.k = "WindowType" ->
           ConfigsIn(x.src_type) \cup ConfigsIn(x.as_tensor) \cup ConfigsInList(x.idx)
      [] OTHER -> {}

ConfigsInList(xs) ==
    IF xs = <<>> THEN {} ELSE ConfigsIn(Head(xs)) \cup ConfigsInList(Tail(xs))

\* the configs used by the closure
ClosureConfigs == UNION {ConfigsInList(inp.body[p]) : p \in Range(result)}

\* two distinct procedures of the closure, or two distinct configs that the
\* closure uses, have the same name
NameClash ==
    \/ \E p \in Range(result) : \E q \in Range(result) : p # q /\ pname[p] = pname[q]
    \/ \E c \in ClosureConfigs : \E d \in ClosureConfigs : c # d /\ c.name = d.name

\* C17: compile_to_strings raises an error and returns neither string
\* whenever two distinct procedures of the closure, or two distinct configs
\* used by the closure, have the same name; when all names are distinct no
\* uniqueness error is raised
C17_NameClashRaises ==
    cpc \in {"returned", "raised"} /\ gpc = "done"
    => IF NameClash
       THEN cout.k = "raise" /\ cout.header = <<>> /\ cout.body = <<>>
       ELSE cout.exc # "TypeError"

\* ------------------------------------------------------------------------
\* Identifier(name).  A string is the sequence of its characters.
\* ------------------------------------------------------------------------
MaxIdLen == 3

\* the characters of the names tried: letters, a digit, the underscore, a
\* newline and a character that is none of these
IdChars == {"a", "Z", "1", "_", "\n", "-"}

\* [a-zA-Z]
IsLetter(c) == c \in {"a", "Z"}

\* \w: a letter, a digit or the underscore
IsWord(c) == IsLetter(c) \/ c = "1" \/ c = "_"

\* (?:_\w|[a-zA-Z])\w* takes all of s
head_and_words(s) ==
    /\ \/ Len(s) >= 2 /\ s[1] = "_" /\ IsWord(s[2])
       \/ Len(s) >= 1 /\ IsLetter(s[1])
    /\ \A i \in 2..Len(s) : IsWord(s[i])

\* Identifier._valid_re.match(name): the pattern ^(?:_\w|[a-zA-Z])\w*$;
\* without re.MULTILINE, $ matches at the end of the string and also just
\* before a newline that is the last character
valid_re_match(name) ==
    \/ head_and_words(name)
    \/ /\ name # <<>>
       /\ name[Len(name)] = "\n"
       /\ head_and_words(SubSeq(name, 1, Len(name) - 1))

IdentInit ==
    /\ GraphIdle
    /\ CompileIdle
    /\ \E n \in 0..MaxIdLen : \E name \in [1..n -> IdChars] :
          inp = [k |-> "Identifier", name |-> name]
    /\ out = [k |-> "none"]
    /\ fpc = "start"

\* Identifier(name): the new string, or ValueError
IdentifierNew ==
    /\ fpc = "start"
    /\ inp.k = "Identifier"
    /\ out' = IF valid_re_match(inp.name) THEN [k |-> "ok", r |-> inp.name]
              ELSE [k |-> "raise", exc |-> "ValueError"]
    /\ fpc' = "done"
    /\ UNCHANGED <<gvars, cvars, inp>>

IdentNext == IdentifierNew

SpecIdent == IdentInit /\ [][IdentNext]_vars

\* the whole of s matches (_[A-Za-z_]|[A-Za-z])\w*
MatchesStated(s) ==
    /\ \/ Len(s) >= 2 /\ s[1] = "_" /\ (IsLetter(s[2]) \/ s[2] = "_")
       \/ Len(s) >= 1 /\ IsLetter(s[1])
    /\ \A i \in 2..Len(s) : IsWord(s[i])

\* C18: Identifier(name) succeeds exactly for the strings that entirely
\* match (_[A-Za-z_]|[A-Za-z])\w* and raises ValueError for every other
\* string, such as _1, a lone _, the empty string and a valid name
\* followed by a newline
C18_ExactlyTheStatedPattern ==
    fpc = "done" /\ inp.k = "Identifier"
    => IF MatchesStated(inp.name) THEN out = [k |-> "ok", r |-> inp.name]
       ELSE out = [k |-> "raise", exc |-> "ValueError"]

\* ------------------------------------------------------------------------
\* The terminal types of LoopIR.  An instance is [ctor, id]: `==` compares
\* the constructor (the nullary constructors have no fields), `is` the id.
\* ------------------------------------------------------------------------
MaxMade == 2

\* the nullary constructors of `type`
TerminalCtors ==
    {"Num", "F32", "F64", "INT8", "INT32", "Bool", "Int", "Index", "Size",
     "Stride", "Error"}

\* the memoize= argument of ADT(...); adjacent string literals are one
\* string
memoize ==
    {"Num", "F32", "F64", "INT8", "INT32" \o "Bool", "Int", "Index", "Size",
     "Stride", "Error"}

\* the assignments of the body of class T that construct a terminal type
T_body ==
    << [attr |-> "R",      ctor |-> "Num"],
       [attr |-> "f32",    ctor |-> "F32"],
       [attr |-> "int8",   ctor |-> "INT8"],
       [attr |-> "i8",     ctor |-> "INT8"],
       [attr |-> "int32",  ctor |-> "INT32"],
       [attr |-> "i32",    ctor |-> "INT32"],
       [attr |-> "f64",    ctor |-> "F64"],
       [attr |-> "bool",   ctor |-> "Bool"],
       [attr |-> "int",    ctor |-> "Int"],
       [attr |-> "index",  ctor |-> "Index"],
       [attr |-> "size",   ctor |-> "Size"],
       [attr |-> "stride", ctor |-> "Stride"],
       [attr |-> "err",    ctor |-> "Error"] >>

NoInstance == 0

\* ctor(): a memoized constructor returns the instance of its first call,
\* any other constructor a new instance; tys is [memo, fresh]
ADT_new(tys, ctor) ==
    IF ctor \in memoize /\ tys.memo[ctor] # NoInstance
    THEN [r |-> [ctor |-> ctor, id |-> tys.memo[ctor]], tys |-> tys]
    ELSE [r |-> [ctor |-> ctor, id |-> tys.fresh],
          tys |-> [memo |-> IF ctor \in memoize
                            THEN [tys.memo EXCEPT ![ctor] = tys.fresh]
                            ELSE tys.memo,
                   fresh |-> tys.fresh + 1]]

\* after LoopIR = ADT(...), before class T
TypesInit ==
    /\ GraphIdle
    /\ CompileIdle
    /\ inp = [k |-> "types",
              tys |-> [memo |-> [c \in TerminalCtors |-> NoInstance],
                       fresh |-> 1],
              T |-> <<>>]
    /\ out = <<>>
    /\ fpc = "class T"

\* the next assignment of the body of class T
T_assign ==
    /\ fpc = "class T"
    /\ LET a == T_body[Len(inp.T) + 1]
           made == ADT_new(inp.tys, a.ctor)
       IN  /\ inp' = [inp EXCEPT !.tys = made.tys,
                                 !.T = Append(@, made.r)]
           /\ fpc' = IF Len(inp.T) + 1 = Len(T_body) THEN "imported"
                     ELSE "class T"
    /\ UNCHANGED <<gvars, cvars, out>>

\* a later construction of a terminal type; out keeps what was constructed
Construct ==
    /\ fpc = "imported"
    /\ Len(out) < MaxMade
    /\ \E ctor \in TerminalCtors :
          LET made == ADT_new(inp.tys, ctor)
          IN  /\ inp' = [inp EXCEPT !.tys = made.tys]
              /\ out' = Append(out, made.r)
    /\ UNCHANGED <<gvars, cvars, fpc>>

TypesNext == T_assign \/ Construct

SpecTypes == TypesInit /\ [][TypesNext]_vars

\* every terminal type constructed so far
Constructed ==
    {inp.T[i] : i \in 1..Len(inp.T)} \cup {out[i] : i \in 1..Len(out)}

\* C19: any two constructions of the same terminal type, at any time,
\* return the same single instance, so `is` agrees with `==` for every
\* terminal type
C19_SingleInstance ==
    inp.k = "types"
    => \A a \in Constructed : \A b \in Constructed :
          (a.ctor = b.ctor) <=> (a.id = b.id)

\* ------------------------------------------------------------------------
\* The static helper exo_floor_div, evaluated as C evaluates it: int is 32
\* bits wide, / truncates toward zero, and signed overflow is undefined.
\* ------------------------------------------------------------------------
MaxNum == 7

MaxQuot == 3

INT_MAX == 2147483647

INT_MIN == (-INT_MAX) - 1

\* a defined int value, or undefined behaviour
IntVal(v) == [ub |-> FALSE, v |-> v]

Undefined == [ub |-> TRUE, v |-> 0]

\* a - b in int
c_sub(a, b) ==
    IF (b > 0 /\ a < INT_MIN + b) \/ (b < 0 /\ a > INT_MAX + b)
    THEN Undefined ELSE IntVal(a - b)

\* a / b in int, b nonzero: the quotient with its fraction discarded
c_div(a, b) ==
    IF a = INT_MIN /\ b = -1 THEN Undefined
    ELSE LET q == a \div b
             exact == IF b > 0 THEN a % b = 0 ELSE a % (-b) = 0
         IN IntVal(IF q < 0 /\ ~exact THEN q + 1 ELSE q)

\* a / b as if C rounded toward minus infinity
c_div_floored(a, b) ==
    IF a = INT_MIN /\ b = -1 THEN Undefined ELSE IntVal(a \div b)

\* int off = (num>=0)? 0 : quot-1;  return (num-off)/quot;
exo_floor_div(num, quot) ==
    LET off == IF num >= 0 THEN IntVal(0) ELSE c_sub(quot, 1)
        diff == IF off.ub THEN Undefined ELSE c_sub(num, off.v)
    IN IF diff.ub THEN Undefined ELSE c_div(diff.v, quot)

\* the operands tried: small ones of both signs and the ends of int
NumValues == (-MaxNum)..MaxNum \cup {INT_MIN, INT_MIN + 1, INT_MAX}

QuotValues == ((-MaxQuot)..MaxQuot \ {0}) \cup {INT_MAX}

HelperInit ==
    /\ GraphIdle
    /\ CompileIdle
    /\ \E num \in NumValues : \E quot \in QuotValues :
          inp = [k |-> "exo_floor_div", num |-> num, quot |-> quot]
    /\ out = [k |-> "none"]
    /\ fpc = "start"

\* one call of the helper; undefined behaviour may return any int, or not
\* return
CallFloorDiv ==
    /\ fpc = "start"
    /\ inp.k = "exo_floor_div"
    /\ LET r == exo_floor_div(inp.num, inp.quot)
       IN IF r.ub
          THEN \/ \E v \in NumValues : out' = [k |-> "undefined", v |-> v]
               \/ out' = [k |-> "undefined", v |-> "trap"]
          ELSE out' = [k |-> "ok", v |-> r.v]
    /\ fpc' = "done"
    /\ UNCHANGED <<gvars, cvars, inp>>

HelperNext == CallFloorDiv

SpecHelper == HelperInit /\ [][HelperNext]_vars

\* C21: exo_floor_div(num, quot) returns the floor of num/quot for every
\* integer num and every nonzero integer quot, negative divisors included
C21_FloorOfQuotient ==
    fpc = "done" /\ inp.k = "exo_floor_div"
    => out = [k |-> "ok", v |-> inp.num \div inp.quot]

\* ------------------------------------------------------------------------
\* comp_s on blocks: the scope chains and the indentation at exit
\* ------------------------------------------------------------------------
\* the symbols: x a scalar, n a size, i a loop variable, y allocated in
\* the statement, b a boolean
ScopeStrs ==
    (1 :> Name("x") @@ 2 :> Name("n") @@ 3 :> Name("i") @@ 4 :> Name("y")
     @@ 5 :> Name("b"))

\* a Compiler object that has bound x, n and b, inside depth open blocks
RECURSIVE ScopeState(_)
ScopeState(depth) ==
    IF depth = 0
    THEN new_varname(
            new_varname(
               new_varname(Compiler_fields(proc_named("p", <<>>, <<>>, <<>>, None,
                                                      effs(<<>>, <<>>)), ScopeStrs),
                           1, tF32, None).st,
               2, tSize, None).st,
            5, tBool, None).st
    ELSE Compiler_push(ScopeState(depth - 1), "None")

\* statements without a block; the last one raises ConfigError
ScopeLeaves ==
    {Pass(None),
     Assign(1, tF32, <<>>, Const(1, tF32), None),
     Alloc_mem(4, tF32, None),
     WriteConfig(cfgC, "f", Const(1, tInt), None)}

ScopeBodies1 == {<<l>> : l \in ScopeLeaves}

ScopeBodies ==
    ScopeBodies1
    \cup {<<l1, l2>> : l1 \in ScopeLeaves, l2 \in ScopeLeaves \ {Alloc_mem(4, tF32, None)}}

ScopeIf(body, orelse) == If(Read(5, <<>>, tBool), body, orelse, None)

ScopeSeq(body) == Seq_(3, Read(2, <<>>, tSize), body, None)

\* a leaf, an If without and with an else branch, a Seq, and blocks nested
\* in blocks
ScopeStmts ==
    ScopeLeaves
    \cup {ScopeIf(body, <<>>) : body \in ScopeBodies}
    \cup {ScopeIf(body, orelse) : body \in ScopeBodies1, orelse \in ScopeBodies1}
    \cup {ScopeSeq(body) : body \in ScopeBodies}
    \cup {ScopeIf(<<ScopeSeq(body)>>, <<>>) : body \in ScopeBodies1}
    \cup {ScopeSeq(<<ScopeIf(body, orelse)>>) :
             body \in ScopeBodies1, orelse \in ScopeBodies1}

MaxEntryDepth == 1

ScopeInit ==
    /\ GraphIdle
    /\ CompileIdle
    /\ \E s \in ScopeStmts, depth \in 0..MaxEntryDepth :
          inp = [k |-> "comp_s", s |-> s, cs |-> ScopeState(depth)]
    /\ out = [k |-> "none"]
    /\ fpc = "start"

\* what is left of the Compiler object when comp_s is left
AtExit(cs) ==
    [k |-> "exit", exc |-> cs.err, env |-> Len(cs.env), names |-> Len(cs.names),
     tab |-> cs.tab, lines |-> cs.lines]

\* self.comp_s(s)
CompS ==
    /\ fpc = "start"
    /\ inp.k = "comp_s"
    /\ out' = AtExit(comp_s(inp.cs, inp.s))
    /\ fpc' = "done"
    /\ UNCHANGED <<gvars, cvars, inp>>

ScopeNext == CompS

SpecScope == ScopeInit /\ [][ScopeNext]_vars

\* the scope chains and the indentation are as they were at entry
Balanced ==
    /\ out.env = Len(inp.cs.env)
    /\ out.names = Len(inp.cs.names)
    /\ out.tab = inp.cs.tab

\* C22: when comp_s(s) exits, by normal return or by a raised error, the
\* depth of the env chain, the depth of the names chain and the indentation
\* equal their values at entry
C22_BalancedOnEveryExit ==
    fpc = "done" /\ inp.k = "comp_s" => Balanced

\* ------------------------------------------------------------------------
\* Alpha_Rename on an If whose two branches mention the same symbol
\* ------------------------------------------------------------------------
\* Alpha_Rename has returned or raised on a list that starts with an If
\* whose body is an Alloc of x and whose orelse starts with a statement of
\* kind k that names x
BranchesShare(k) ==
    /\ inp.k = "binder"
    /\ ~inp.isproc
    /\ out.alpha # NoRes
    /\ inp.node[1].k = "If"
    /\ inp.node[1].body[1].k = "Alloc"
    /\ inp.node[1].orelse # <<>>
    /\ inp.node[1].orelse[1].k = k
    /\ inp.node[1].orelse[1].name = inp.node[1].body[1].name

\* C23: for an If whose body and orelse each contain an Alloc of the same
\* symbol x, renaming succeeds and the two Allocs receive two different
\* fresh symbols; a reference to x in orelse is never rewritten to the
\* fresh symbol of an Alloc in body
C23_BranchScopesIndependent ==
    /\ BranchesShare("Alloc") =>
          /\ out.alpha.k = "ok"
          /\ out.alpha.node[1].body[1].name \notin Syms
          /\ out.alpha.node[1].orelse[1].name \notin Syms
          /\ out.alpha.node[1].body[1].name # out.alpha.node[1].orelse[1].name
    /\ BranchesShare("Assign") =>
          /\ out.alpha.k = "ok"
          /\ out.alpha.node[1].orelse[1].name # out.alpha.node[1].body[1].name

\* ------------------------------------------------------------------------
\* The scopes of FreeVars, stated on sets: B is the set of the symbols that
\* have a binder in an open scope
\* ------------------------------------------------------------------------
\* the symbols referred to by an expression, a type or an effect x that are
\* not in B; fk is the visitor method for x
FreeOf(fk, x, B) == do_call(fk, x, [env |-> <<[n \in B |-> TRUE]>>, fv |-> {}]).fv

RECURSIVE FreeOfAll(_, _, _)
FreeOfAll(fk, xs, B) ==
    IF xs = <<>> THEN {} ELSE FreeOf(fk, Head(xs), B) \cup FreeOfAll(fk, Tail(xs), B)

\* the free symbols of a block: a binder holds for what follows it in the
\* block; body and orelse of an If are one block; iter holds in the body
\* of its Seq
RECURSIVE FreeInBlock(_, _)
FreeInBlock(nodes, B) ==
    IF nodes = <<>> THEN {}
    ELSE LET s == Head(nodes)
             rest == Tail(nodes)
         IN CASE s.k \in {"Assign", "Reduce"} ->
                   ({s.name} \ B) \cup FreeOfAll("do_e", s.idx, B)
                   \cup FreeOf("do_e", s.rhs, B) \cup FreeOf("do_t", s.type, B)
                   \cup FreeOf("do_eff", s.eff, B) \cup FreeInBlock(rest, B)
              [] s.k = "Alloc" ->
                   FreeOf("do_t", s.type, B \cup {s.name})
                   \cup FreeOf("do_eff", s.eff, B \cup {s.name})
                   \cup FreeInBlock(rest, B \cup {s.name})
              [] s.k = "WindowStmt" ->
                   FreeOf("do_e", s.rhs, B \cup {s.lhs})
                   \cup FreeOf("do_eff", s.eff, B \cup {s.lhs})
                   \cup FreeInBlock(rest, B \cup {s.lhs})
              [] s.k = "If" ->
                   FreeOf("do_e", s.cond, B) \cup FreeInBlock(s.body \o s.orelse, B)
                   \cup FreeOf("do_eff", s.eff, B) \cup FreeInBlock(rest, B)
              [] s.k = "Seq" ->
                   FreeOf("do_e", s.hi, B) \cup FreeInBlock(s.body, B \cup {s.iter})
                   \cup FreeOf("do_eff", s.eff, B) \cup FreeInBlock(rest, B)
              [] s.k = "WriteConfig" ->
                   FreeOf("do_e", s.rhs, B) \cup FreeOf("do_eff", s.eff, B)
                   \cup FreeInBlock(rest, B)
              [] s.k = "Call" ->
                   FreeOfAll("do_e", s.args, B) \cup FreeOf("do_eff", s.eff, B)
                   \cup FreeInBlock(rest, B)
              [] s.k \in {"Pass", "Free"} ->
                   FreeOf("do_eff", s.eff, B) \cup FreeInBlock(rest, B)
              [] s.k \in ExprKinds -> FreeOf("do_e", s, B) \cup FreeInBlock(rest, B)
              [] OTHER -> FreeOf("do_eff", s, B) \cup FreeInBlock(rest, B)

\* C24: FreeVars over a statement list reports a symbol as free exactly
\* when some reference to it is visited while no binder of it is in an open
\* scope: an If opens one scope for body and orelse together, a Seq one
\* scope for iter and its body, and a binder holds from its statement on
C24_FreeVarsScopes ==
    (inp.k = "binder" /\ ~inp.isproc /\ out.fv.k = "ok")
    => out.fv.set = FreeInBlock(inp.node, {})

\* an If whose body allocates x and whose orelse assigns to x, followed by
\* a read of x: x is free, and only because of the read after the If
C24_Witness ==
    /\ inp.k = "binder"
    /\ ~inp.isproc
    /\ out.fv.k = "ok"
    /\ Len(inp.node) = 2
    /\ inp.node[1].k = "If"
    /\ inp.node[1].body[1].k = "Alloc"
    /\ inp.node[1].orelse # <<>>
    /\ inp.node[1].orelse[1].k = "Assign"
    /\ inp.node[1].orelse[1].name = inp.node[1].body[1].name
    /\ inp.node[2].k = "Read"
    /\ inp.node[2].name = inp.node[1].body[1].name
    /\ inp.node[2].name \in out.fv.set
    /\ inp.node[2].name \notin FreeInBlock(<<inp.node[1]>>, {})

\* ------------------------------------------------------------------------
\* The order in which the two skeletons call on the children of a node
\* ------------------------------------------------------------------------
OrderIdx == {<<>>, <<Rd(1)>>, <<Rd(1), Rd(2)>>}

\* the nodes the skeletons are started on
OrderInputs ==
    {Assign(x, tR, idx, rhs, eff) :
        x \in Syms, idx \in OrderIdx, rhs \in {Rd(2), Const(1, TScalar("int"))},
        eff \in {None, EffW(1, 2)}}
    \cup {Reduce(x, tR, idx, Rd(2), None) : x \in Syms, idx \in OrderIdx}
    \cup {Read(x, idx, tR) : x \in Syms, idx \in OrderIdx}
    \cup {BinOp("+", Rd(x), Rd(y), tIdx) : x, y \in Syms}
    \cup {USub(Rd(x), tIdx) : x \in Syms}
    \cup {BuiltIn(1, args, tR) : args \in OrderIdx \ {<<>>}}
    \cup {Win(x) : x \in Syms}
    \cup {WindowExpr(x, <<Point(Rd(x)), Interval(Rd(1), Rd(2))>>,
                     WindowType(Tensor(<<Rd(x), Rd(x)>>, FALSE, tR),
                                Tensor(<<Rd(x)>>, TRUE, tR), x,
                                <<Point(Rd(x)), Interval(Rd(1), Rd(2))>>)) :
             x \in Syms}

OrderInit ==
    /\ GraphIdle
    /\ CompileIdle
    /\ \E x \in OrderInputs : inp = [k |-> "order", x |-> x]
    /\ out = [k |-> "order", map |-> NoRes, do |-> NoRes]
    /\ fpc = "start"

\* the tracing subclass of LoopIR_Rewrite started on the node
TraceRewrite ==
    /\ fpc = "start"
    /\ inp.k = "order"
    /\ LET st == [env |-> ChainMap, nxt |-> NumSyms + 1, err |-> "", log |-> <<>>,
                  depth |-> 0]
           r == IF inp.x.k \in StmtKinds
                THEN map_s([kind |-> "trace"], inp.x, st)
                ELSE map_e([kind |-> "trace"], inp.x, st)
       IN out' = [out EXCEPT !.map = [k |-> "ok", log |-> r.st.log]]
    /\ fpc' = "mapped"
    /\ UNCHANGED <<gvars, cvars, inp>>

\* the tracing subclass of LoopIR_Do started on the node
TraceDo ==
    /\ fpc = "mapped"
    /\ inp.k = "order"
    /\ LET st == [env |-> ChainMap, log |-> <<>>, depth |-> 0]
           r == IF inp.x.k \in StmtKinds THEN do_s(inp.x, st) ELSE do_e(inp.x, st)
       IN out' = [out EXCEPT !.do = [k |-> "ok", log |-> r.log]]
    /\ fpc' = "done"
    /\ UNCHANGED <<gvars, cvars, inp>>

OrderNext == TraceRewrite \/ TraceDo

SpecOrder == OrderInit /\ [][OrderNext]_vars

\* the calls on a list of expressions, left to right
CallsOnExprs(es) == [i \in DOMAIN es |-> [c |-> "expr", x |-> es[i]]]

\* the calls on the accesses of a window: lo then hi, or pt
RECURSIVE CallsOnAccesses(_)
CallsOnAccesses(ws) ==
    IF ws = <<>> THEN <<>>
    ELSE (IF Head(ws).k = "Interval"
          THEN CallsOnExprs(<<Head(ws).lo, Head(ws).hi>>)
          ELSE CallsOnExprs(<<Head(ws).pt>>))
         \o CallsOnAccesses(Tail(ws))

\* the canonical order: indices, right-hand side, type, effect for a
\* statement; children left to right, then the type, for an expression
Canonical(x) ==
    CASE x.k \in {"Assign", "Reduce"} ->
           CallsOnExprs(x.idx) \o CallsOnExprs(<<x.rhs>>)
           \o <<[c |-> "type", x |-> x.type], [c |-> "effect", x |-> x.eff]>>
      [] x.k = "Read" -> CallsOnExprs(x.idx) \o <<[c |-> "type", x |-> x.type]>>
      [] x.k = "BinOp" ->
           CallsOnExprs(<<x.lhs, x.rhs>>) \o <<[c |-> "type", x |-> x.type]>>
      [] x.k = "USub" -> CallsOnExprs(<<x.arg>>) \o <<[c |-> "type", x |-> x.type]>>
      [] x.k = "BuiltIn" -> CallsOnExprs(x.args) \o <<[c |-> "type", x |-> x.type]>>
      [] x.k = "WindowExpr" ->
           CallsOnAccesses(x.idx) \o <<[c |-> "type", x |-> x.type]>>

\* C25: LoopIR_Rewrite.map_s / map_e and LoopIR_Do.do_s / do_e each visit
\* the children in the canonical order: indices, right-hand side, type,
\* effect; child expressions left to right and the type last; lo before hi
C25_CanonicalOrder ==
    (inp.k = "order" /\ fpc = "done")
    => out.map.log = Canonical(inp.x) /\ out.do.log = Canonical(inp.x)

\* ------------------------------------------------------------------------
\* Strides and offsets of a tensor that is not a window
\* ------------------------------------------------------------------------
MaxDims == 3

\* the value of the size n when the emitted text is evaluated
NVal == 2

StrideStrs == (1 :> Name("n") @@ 2 :> Name("x"))

\* a Compiler object in whose scope n is a size and x a buffer of type typ
StrideState(typ) ==
    new_varname(
       new_varname(Compiler_fields(proc_named("p", <<>>, <<>>, <<>>, None,
                                              effs(<<>>, <<>>)), StrideStrs),
                   1, tSize, None).st,
       2, typ, None).st

\* extents: a constant, a size, a sum
Extents ==
    {Const(2, tInt), Read(1, <<>>, tSize),
     BinOp("+", Read(1, <<>>, tSize), Const(1, tInt), tSize)}

\* index expressions: constants and a difference
Indices ==
    {Const(0, tInt), Const(1, tInt), Const(2, tInt),
     BinOp("-", Read(1, <<>>, tSize), Const(1, tInt), tIdx)}

\* the number an extent or an index stands for when n is NVal
RECURSIVE IRVal(_)
IRVal(e) ==
    CASE e.k = "Const" -> e.val
      [] e.k = "Read" -> NVal
      [] e.k = "BinOp" /\ e.op = "+" -> IRVal(e.lhs) + IRVal(e.rhs)
      [] e.k = "BinOp" /\ e.op = "-" -> IRVal(e.lhs) - IRVal(e.rhs)

InBounds(hi, idx) ==
    \A d \in DOMAIN hi : 0 <= IRVal(idx[d]) /\ IRVal(idx[d]) < IRVal(hi[d])

StrideInit ==
    /\ GraphIdle
    /\ CompileIdle
    /\ \E k \in 1..MaxDims :
          \E hi \in [1..k -> Extents], idx \in [1..k -> Indices] :
             /\ InBounds(hi, idx)
             /\ inp = [k |-> "strides", typ |-> Tensor(hi, FALSE, tF32), idx |-> idx]
    /\ out = [k |-> "none"]
    /\ fpc = "start"

\* the strides and the offset that access_str computes for x[idx]
CompOffset ==
    /\ fpc = "start"
    /\ inp.k = "strides"
    /\ LET cs == StrideState(inp.typ)
           idxs == comp_list(cs, inp.idx, 0, <<>>)
           strides == get_strides(idxs.st, env_str(cs, 2), inp.typ, 61)
           offset == get_idx_offset(strides.st, env_str(cs, 2), inp.typ, idxs.r)
       IN out' = IF offset.st.err # "" THEN [k |-> "raise", exc |-> offset.st.err]
                 ELSE [k |-> "ok", strides |-> strides.r, offset |-> offset.r]
    /\ fpc' = "done"
    /\ UNCHANGED <<gvars, cvars, inp>>

StrideNext == CompOffset

SpecStride == StrideInit /\ [][StrideNext]_vars

\* the number a C expression stands for when n is NVal; / is not emitted
NumberOf(a) == CHOOSE v \in 0..9 : ToString(v) = a

RECURSIVE CValue(_)
CValue(t) ==
    CASE t.k = "atom" -> IF t.a = "n" THEN NVal ELSE NumberOf(t.a)
      [] t.k = "neg" -> 0 - CValue(t.arg)
      [] t.k = "bin" /\ t.op = "+" -> CValue(t.l) + CValue(t.r)
      [] t.k = "bin" /\ t.op = "-" -> CValue(t.l) - CValue(t.r)
      [] t.k = "bin" /\ t.op = "*" -> CValue(t.l) * CValue(t.r)

ValueOfText(pieces) == CValue(Parse(pieces))

\* the product of the extents after dimension d
RECURSIVE ProductAfter(_, _)
ProductAfter(hi, d) ==
    IF d >= Len(hi) THEN 1 ELSE IRVal(hi[d + 1]) * ProductAfter(hi, d + 1)

\* the sum over the dimensions from d on of vals[d] times the stride
RECURSIVE Weighted(_, _, _)
Weighted(vals, strides, d) ==
    IF d > Len(vals) THEN 0
    ELSE vals[d] * strides[d] + Weighted(vals, strides, d + 1)

\* the index tuples within the extents hi
TuplesIn(hi) ==
    {j \in [DOMAIN hi -> 0..(NVal + 1)] : \A d \in DOMAIN hi : j[d] < IRVal(hi[d])}

\* C26: the stride string of dimension d denotes the product of the
\* extents after d, the offset string denotes the sum of index times
\* stride, and two different in-bounds index tuples denote different
\* offsets
C26_StridesAndOffsets ==
    (inp.k = "strides" /\ fpc = "done")
    => /\ out.k = "ok"
       /\ Len(out.strides) = Len(inp.typ.hi)
       /\ \A d \in DOMAIN inp.typ.hi :
             ValueOfText(out.strides[d]) = ProductAfter(inp.typ.hi, d)
       /\ LET vals == [d \in DOMAIN inp.idx |-> IRVal(inp.idx[d])]
              strides == [d \in DOMAIN out.strides |-> ValueOfText(out.strides[d])]
          IN /\ ValueOfText(out.offset) = Weighted(vals, strides, 1)
             /\ \A j \in TuplesIn(inp.typ.hi) :
                   j # vals => Weighted(j, strides, 1) # ValueOfText(out.offset)

\* three dimensions, the extents after the first are sums, and an index
\* that is a difference
C26_Witness ==
    /\ inp.k = "strides"
    /\ fpc = "done"
    /\ out.k = "ok"
    /\ Len(inp.typ.hi) = 3
    /\ inp.typ.hi[2].k = "BinOp"
    /\ inp.typ.hi[3].k = "BinOp"
    /\ inp.idx[1].k = "BinOp"
    /\ inp.idx[3] = Const(2, tInt)
    /\ ValueOfText(out.strides[1]) = 9
    /\ ValueOfText(out.offset) = 9 + 3 * IRVal(inp.idx[2]) + 2

\* ------------------------------------------------------------------------
\* Scalar arguments of a call of a procedure
\* ------------------------------------------------------------------------
\* the names that Compiler.__init__ records in _scalar_refs
ScalarRefs(p) == {p.args[i].name : i \in {j \in DOMAIN p.args : is_real_scalar(p.args[j].type)}}

\* the statements of the body that call a procedure without a template
\* and pass it one real scalar by its name
ScalarCalls(p) ==
    {s \in Range(p.body) :
        /\ s.k = "Call"
        /\ IsNone(s.f.instr)
        /\ Len(s.args) = 1
        /\ s.args[1].k = "Read"
        /\ s.args[1].type = tF32}

HasLine(line) == \E i \in DOMAIN out.proc_def : out.proc_def[i] = line

CallLine(s, arg) == s.f.name \o "(ctxt," \o arg \o ");"

\* C27 as stated: a scalar-ref argument of a call is passed as &name
C27_ScalarRefByAddress ==
    fpc = "done" /\ inp.k = "Compiler" /\ out.k = "ok"
    => \A s \in ScalarCalls(inp.p) :
          s.args[1].name \in ScalarRefs(inp.p)
          => HasLine(CallLine(s, "&" \o NameStr(ProcStrs[s.args[1].name])))

\* C27: a scalar-ref argument of a call is passed by its bare name, and
\* &name is what a real scalar that is not a scalar ref is passed as
C27_ScalarRefByName ==
    fpc = "done" /\ inp.k = "Compiler" /\ out.k = "ok"
    => \A s \in ScalarCalls(inp.p) :
          LET name == NameStr(ProcStrs[s.args[1].name])
              ref == s.args[1].name \in ScalarRefs(inp.p)
          IN /\ HasLine(CallLine(s, name)) <=> ref
             /\ HasLine(CallLine(s, "&" \o name)) <=> ~ref

\* g(src) with src a scalar argument of the calling procedure
C27_Witness ==
    /\ fpc = "done" /\ inp.k = "Compiler" /\ out.k = "ok"
    /\ inp.p.args[3].type = tF32
    /\ \E s \in ScalarCalls(inp.p) : s.args[1].name = 3
    /\ HasLine("g(ctxt,src);")

\* g(tmp) with tmp a scalar allocated in the body
C27_WitnessLocal ==
    /\ fpc = "done" /\ inp.k = "Compiler" /\ out.k = "ok"
    /\ \E s \in ScalarCalls(inp.p) : s.args[1].name = 7
    /\ HasLine("g(ctxt,&tmp);")

\* ------------------------------------------------------------------------
\* A block whose statements are all replaced by the empty list
\* ------------------------------------------------------------------------
\* the pass replaces the statement of the body by a list
ReplacesBody ==
    /\ fpc = "done"
    /\ inp.k = "rewrite"
    /\ inp.ps.kind = "custom"
    /\ S1 \in DOMAIN inp.ps.smap
    /\ out.k = "ok"

\* C28: the block of the rewritten node is the concatenation of the lists
\* that map_s returned for its statements, also when that concatenation is
\* empty, and the original statements do not reappear
C28_BlockIsConcatenation ==
    ReplacesBody => out.node.body = inp.ps.smap[S1]

\* ------------------------------------------------------------------------
\* The stride of a window whose C name is not its printable name
\* ------------------------------------------------------------------------
\* how many symbols of the same printable name are bound before the window
MaxPrior == 2

\* the window is symbol 1; the symbols bound before it are 2, 3, ...
WinSym == 1

RECURSIVE BindPrior(_, _)
BindPrior(cs, n) ==
    IF n = 0 THEN cs
    ELSE new_varname(BindPrior(cs, n - 1), WinSym + n, tF32, None).st

\* a Compiler object in which prior symbols printed as nm are bound and
\* then the window, printed as nm too, of type typ
WindowState(nm, prior, typ) ==
    new_varname(
       BindPrior(Compiler_fields(proc_named("p", <<>>, <<>>, <<>>, None,
                                            effs(<<>>, <<>>)),
                                 [s \in 1..(MaxPrior + 1) |-> nm]),
                 prior),
       WinSym, typ, None).st

WindowInit ==
    /\ GraphIdle
    /\ CompileIdle
    /\ \E nm \in {Name("w"), [stem |-> "w", suf |-> 1]}, prior \in 0..MaxPrior,
          k \in 1..MaxDims :
          \E dim \in 0..(k - 1) :
             inp = [k |-> "window", dim |-> dim, rank |-> k,
                    cs |-> WindowState(nm, prior,
                                       Tensor([d \in 1..k |-> Const(8, tInt)], TRUE, tF32))]
    /\ out = [k |-> "none"]
    /\ fpc = "start"

\* comp_e(StrideExpr(w, dim))
CompStride ==
    /\ fpc = "start"
    /\ inp.k = "window"
    /\ out' = Emitted(comp_e(inp.cs, StrideExpr(WinSym, inp.dim, tStride), 0))
    /\ fpc' = "stride"
    /\ UNCHANGED <<gvars, cvars, inp>>

\* comp_e(w[0, ..., 0])
CompRead ==
    /\ fpc = "start"
    /\ inp.k = "window"
    /\ out' = Emitted(comp_e(inp.cs,
                             Read(WinSym, [d \in 1..inp.rank |-> Const(0, tInt)], tF32),
                             0))
    /\ fpc' = "read"
    /\ UNCHANGED <<gvars, cvars, inp>>

WindowNext == CompStride \/ CompRead

SpecWindow == WindowInit /\ [][WindowNext]_vars

\* the C identifier that new_varname assigned to the window
CName == env_str(inp.cs, WinSym)

\* C29: the text of StrideExpr(w, dim) is <c>.strides[dim] with <c> the
\* C identifier that new_varname assigned to w, also when a collision of
\* names made it differ from the printable name of w
C29_StrideNamesTheIdentifier ==
    (inp.k = "window" /\ fpc = "stride")
    => /\ out.k = "ok"
       /\ out.text = CName \o ".strides[" \o ToString(inp.dim) \o "]"

\* ------------------------------------------------------------------------
\* new_varname on names that end in an underscore
\* ------------------------------------------------------------------------
\* C30: new_varname returns a C identifier without raising, whatever the
\* printable names of the symbols and the live names are, also when the
\* colliding name ends in an underscore or in _<digits>
C30_NewVarnameNeverRaises ==
    inp.k = "names" => inp.cs.err = ""

Init == GraphInit /\ CompileIdle /\ FunIdle

Next == GraphNext

Spec == Init /\ [][Next]_vars

====
